---- MODULE Spec2Model ----
(***************************************************************************)
(* AXTerm RF channel simulator (src/Docker/rf_simulator.py).               *)
(*                                                                         *)
(* The simulator is an asyncio program: one task per accepted connection   *)
(* (RFChannel.handle_station) and one task per parsed frame                *)
(* (RFChannel.transmit).  Tasks run on one event loop, so the code between *)
(* two suspension points (reader.read, asyncio.sleep, writer.drain,        *)
(* writer.wait_closed, a contended lock) runs without interleaving.  The   *)
(* variable running names the task that holds the loop; a task that        *)
(* reaches a suspension point gives it back and any ready task may take it.*)
(* A step of a task runs from one lock boundary or suspension point to the *)
(* next: it ends where the task suspends, returns, or has just entered an  *)
(* "async with self.lock" block.                                           *)
(*                                                                         *)
(* Time is counted in thirds of a millisecond, the unit in which the       *)
(* frame duration of line 326 (len * 8 / 1200 s + 100 ms) is a whole       *)
(* number for every frame length.                                          *)
(***************************************************************************)
EXTENDS Integers, Sequences, FiniteSets, TLC

\* ------------------------------------------------------------------ bounds
\* The inputs the environment gives the simulator: a connection accepted, a
\* chunk of bytes received, a stream ended, the clock advanced.
MaxInputs == 4

\* The longest byte string a library call is made on.
MaxData == 4

\* The longest callsign drawn from the whole alphabet of callsign characters.
MaxCall == 2

\* The most bytes that follow the control byte of a frame given to a decoder.
MaxInfo == 2

\* --------------------------------------------------------------- constants
FEND == 192
FESC == 219
TFEND == 220
TFESC == 221
PROPAGATION_DELAY_MS == 10
TX_DELAY_MS == 100
BIT_ERROR_RATE == 0
MIN_KISS_LEN == 3
MIN_AX25_LEN == 14
BAUD == 1200
UnitsPerMs == 3
DUPE_WINDOW_MS == 1000
PURGE_AGE_MS == 5000

PORT_A == 8001
PORT_B == 8002

STATION_PORTS == <<8001, 8002, 8003, 8004>>
ACTIVE_PORTS == <<8001, 8002>>

Range(s) == {s[i] : i \in 1..Len(s)}

Ms(n) == n * UnitsPerMs

\* How far the clock may advance between two runs of the event loop.
TickSteps == {Ms(200), Ms(1000), Ms(5000)}

\* ------------------------------------------------------------- wire frames
\* AX.25 data: two addresses only (TEST2 <- TEST1-1), no control byte.
AX_ADDR_ONLY == <<168, 138, 166, 168, 100, 64, 96, 168, 138, 166, 168, 98, 64, 99>>
\* AX.25 data: UI frame CQ <- N0CALL-2, pid F0, info bytes C0 DB.
AX_UI == <<134, 162, 64, 64, 64, 64, 96, 156, 96, 134, 130, 152, 152, 101, 3, 240, 192, 219>>
\* AX.25 data one byte short of the two addresses.
AX_SHORT == <<168, 138, 166, 168, 100, 64, 96, 168, 138, 166, 168, 98, 64>>

\* ----------------------------------------------------------- pure functions
RECURSIVE kiss_unescape_from(_, _)
kiss_unescape_from(data, i) ==
    IF i > Len(data) THEN <<>>
    ELSE IF data[i] = FESC
         THEN IF i + 1 <= Len(data)
              THEN (IF data[i + 1] = TFEND THEN <<FEND>>
                    ELSE IF data[i + 1] = TFESC THEN <<FESC>>
                    ELSE <<data[i + 1]>>) \o kiss_unescape_from(data, i + 2)
              ELSE kiss_unescape_from(data, i + 1)
         ELSE <<data[i]>> \o kiss_unescape_from(data, i + 1)

kiss_unescape(data) == kiss_unescape_from(data, 1)

RECURSIVE kiss_escape_from(_, _)
kiss_escape_from(data, i) ==
    IF i > Len(data) THEN <<>>
    ELSE (IF data[i] = FEND THEN <<FESC, TFEND>>
          ELSE IF data[i] = FESC THEN <<FESC, TFESC>>
          ELSE <<data[i]>>) \o kiss_escape_from(data, i + 1)

\* Variant: nothing is escaped.
kiss_escape_none(data) == data

kiss_escape(data) == kiss_escape_from(data, 1)

\* str.strip() on a string of character codes: white space is removed at
\* both ends.
Whitespace == {9, 10, 11, 12, 13, 28, 29, 30, 31, 32}

RECURSIVE Strip(_)
Strip(str) ==
    IF str = <<>> THEN str
    ELSE IF Head(str) \in Whitespace THEN Strip(Tail(str))
    ELSE IF str[Len(str)] \in Whitespace THEN Strip(SubSeq(str, 1, Len(str) - 1))
    ELSE str

\* The callsign characters of the address at offset: each byte shifted
\* right by one, spaces left out.
CallsignChars(data, offset) ==
    LET NotSpace(c) == c # 32
    IN SelectSeq([i \in 1..6 |-> (data[offset + i] \div 2) % 128], NotSpace)

\* Variant: the SSID is read without the shift.
decode_ax25_address_unshifted(data, offset) ==
    IF Len(data) < offset + 7
    THEN [callsign |-> <<63, 63, 63, 63, 63, 63>>, ssid |-> 0, is_last |-> TRUE]
    ELSE [callsign |-> Strip(CallsignChars(data, offset)),
          ssid |-> data[offset + 7] % 16,
          is_last |-> data[offset + 7] % 2 = 1]

\* decode_ax25_address of the simulator; offset counts from 0. A field cut
\* short decodes as "??????"-0, last.
decode_ax25_address(data, offset) ==
    IF Len(data) < offset + 7
    THEN [callsign |-> <<63, 63, 63, 63, 63, 63>>, ssid |-> 0, is_last |-> TRUE]
    ELSE [callsign |-> Strip(CallsignChars(data, offset)),
          ssid |-> (data[offset + 7] \div 2) % 16,
          is_last |-> data[offset + 7] % 2 = 1]

\* decode_ax25_address of the test scripts: the address (None for a field
\* cut short), the last flag and the offset after the field.
vt_decode_ax25_address(data, offset) ==
    IF Len(data) < offset + 7
    THEN [address |-> "None", is_last |-> TRUE, offset |-> offset]
    ELSE [address |-> [callsign |-> Strip(CallsignChars(data, offset)),
                       ssid |-> (data[offset + 7] \div 2) % 16],
          is_last |-> data[offset + 7] % 2 = 1,
          offset |-> offset + 7]

\* str.upper() on one character code.
Upper(c) == IF c \in 97..122 THEN c - 32 ELSE c

\* callsign.upper().ljust(6)[:6]
Padded(callsign) ==
    [i \in 1..6 |-> IF i <= Len(callsign) THEN Upper(callsign[i]) ELSE 32]

\* encode_ax25_address of the test scripts. The SSID byte is 0x60 with the
\* four SSID bits in bits 1-4 and the last flag in bit 0; the operands of
\* the ors share no bit, so the ors are sums.
encode_ax25_address(callsign, ssid, is_last) ==
    [i \in 1..6 |-> Padded(callsign)[i] * 2]
    \o <<96 + (ssid % 16) * 2 + (IF is_last THEN 1 ELSE 0)>>

\* The via loop of decode_ax25_frame (147-151).
RECURSIVE ViaFrom(_, _, _, _)
ViaFrom(data, offset, is_last, via) ==
    IF ~is_last /\ offset + 7 <= Len(data)
    THEN LET a == decode_ax25_address(data, offset)
         IN ViaFrom(data, offset + 7, a.is_last, Append(via, a))
    ELSE [offset |-> offset, via |-> via]

\* Variant: the frame type defaults to the first member of the enumeration.
AX25FrameInformation(data) ==
    [raw |-> data, dest |-> <<>>, source |-> <<>>, via |-> <<>>, control |-> 0,
     frame_type |-> "I", ns |-> 0, nr |-> 0, pf |-> FALSE, pid |-> 0, info |-> <<>>]

\* AX25Frame(raw=data): the dataclass defaults.
AX25Frame(data) ==
    [raw |-> data, dest |-> <<>>, source |-> <<>>, via |-> <<>>, control |-> 0,
     frame_type |-> "?", ns |-> 0, nr |-> 0, pf |-> FALSE, pid |-> 0, info |-> <<>>]

\* The control-byte branch of decode_ax25_frame (154-174).
Classified(frame, control) ==
    IF control % 2 = 0
    THEN [frame EXCEPT !.control = control, !.frame_type = "I",
                       !.ns = (control \div 2) % 8, !.nr = (control \div 32) % 8,
                       !.pf = (control \div 16) % 2 = 1]
    ELSE IF control % 4 = 1
    THEN [frame EXCEPT !.control = control, !.frame_type = "S",
                       !.nr = (control \div 32) % 8,
                       !.pf = (control \div 16) % 2 = 1]
    ELSE [frame EXCEPT !.control = control, !.frame_type = "U",
                       !.pf = (control \div 16) % 2 = 1]

\* Variant: the P/F bit is left in.
MaskNothing(control) == control

\* control & 0xEF
MaskPF(control) == control - ((control \div 16) % 2) * 16

\* Python's None where a sequence number is not returned.
None == -1

\* AX25Decoder.decode_frame_type of kiss-monitor.py: the frame type, N(S),
\* N(R) and the P/F bit.
km_decode_frame_type(control) ==
    LET pf == (control \div 16) % 2 = 1
        nr == (control \div 32) % 8
        s_type == (control \div 4) % 4
        u_type == MaskPF(control)
    IN IF control % 2 = 0
       THEN [frame_type |-> "I", ns |-> (control \div 2) % 8, nr |-> nr, pf |-> pf]
       ELSE IF control % 4 = 1
       THEN [frame_type |-> IF s_type = 0 THEN "RR"
                            ELSE IF s_type = 1 THEN "RNR"
                            ELSE IF s_type = 2 THEN "REJ"
                            ELSE "UNKNOWN",
             ns |-> None, nr |-> nr, pf |-> pf]
       ELSE [frame_type |-> IF u_type = 3 THEN "UI"
                            ELSE IF u_type = 47 THEN "SABM"
                            ELSE IF u_type = 111 THEN "SABME"
                            ELSE IF u_type = 99 THEN "UA"
                            ELSE IF u_type = 15 THEN "DM"
                            ELSE IF u_type = 67 THEN "DISC"
                            ELSE IF u_type = 135 THEN "FRMR"
                            ELSE IF u_type = 175 THEN "XID"
                            ELSE IF u_type = 227 THEN "TEST"
                            ELSE "UNKNOWN",
             ns |-> None, nr |-> None, pf |-> pf]

\* The counter the monitor adds a frame of this type to (324-329).
km_counted(frame_type) ==
    IF frame_type = "I" THEN "i_frames"
    ELSE IF frame_type \in {"RR", "RNR", "REJ"} THEN "s_frames"
    ELSE "u_frames"

\* decode_frame_type of visual-test.py: the name of the frame type and the
\* numbers its details string prints.  An unnumbered control byte that is
\* not in u_names is labelled with the control byte itself, kept in code.
vt_decode_frame_type(control) ==
    LET pf == (control \div 16) % 2
        nr == (control \div 32) % 8
        s_type == (control \div 4) % 4
        u_type == MaskPF(control)
    IN IF control % 2 = 0
       THEN [frame_type |-> "I", code |-> None,
             ns |-> (control \div 2) % 8, nr |-> nr, pf |-> pf]
       ELSE IF control % 4 = 1
       THEN [frame_type |-> IF s_type = 0 THEN "RR"
                            ELSE IF s_type = 1 THEN "RNR"
                            ELSE IF s_type = 2 THEN "REJ"
                            ELSE "SREJ",
             code |-> None, ns |-> None, nr |-> nr, pf |-> pf]
       ELSE [frame_type |-> IF u_type = 47 THEN "SABM"
                            ELSE IF u_type = 15 THEN "DM"
                            ELSE IF u_type = 67 THEN "DISC"
                            ELSE IF u_type = 99 THEN "UA"
                            ELSE IF u_type = 3 THEN "UI"
                            ELSE IF u_type = 135 THEN "FRMR"
                            ELSE "U",
             code |-> IF u_type \in {47, 15, 67, 99, 3, 135} THEN None ELSE control,
             ns |-> None, nr |-> None, pf |-> pf]

\* decode_ax25_frame of the simulator.
decode_ax25_frame(data) ==
    IF Len(data) < 14 THEN AX25Frame(data)
    ELSE LET source == decode_ax25_address(data, 7)
             v == ViaFrom(data, 14, source.is_last, <<>>)
             addressed == [AX25Frame(data) EXCEPT
                              !.dest = decode_ax25_address(data, 0),
                              !.source = source, !.via = v.via]
             has_control == v.offset < Len(data)
             c == IF has_control
                  THEN Classified(addressed, data[v.offset + 1]) ELSE addressed
             o1 == IF has_control THEN v.offset + 1 ELSE v.offset
             has_pid == /\ \/ c.frame_type = "I"
                           \/ c.frame_type = "U" /\ MaskPF(c.control) = 3
                        /\ o1 < Len(data)
             o2 == IF has_pid THEN o1 + 1 ELSE o1
         IN [c EXCEPT !.pid = IF has_pid THEN data[o1 + 1] ELSE @,
                      !.info = IF o2 < Len(data)
                               THEN SubSeq(data, o2 + 1, Len(data)) ELSE @]

\* data[a:b] of Python, a and b counted from 0.
Slice(data, a, b) == SubSeq(data, a + 1, IF b < Len(data) THEN b ELSE Len(data))

\* str(ssid) for an SSID of one or two digits.
Digits(n) == IF n < 10 THEN <<48 + n>> ELSE <<48 + (n \div 10), 48 + (n % 10)>>

\* AX25Decoder.decode_callsign of kiss-monitor.py on a slice of 7 bytes:
\* the callsign text, with "-ssid" after it when the SSID is not 0, the
\* SSID and the last flag.
km_decode_callsign(data) ==
    IF Len(data) < 7
    THEN [callsign |-> <<63, 63, 63, 63, 63, 63>>, ssid |-> 0, is_last |-> FALSE]
    ELSE LET ssid == (data[7] \div 2) % 16
         IN [callsign |-> CallsignChars(data, 0)
                          \o (IF ssid > 0 THEN <<45>> \o Digits(ssid) ELSE <<>>),
             ssid |-> ssid,
             is_last |-> data[7] % 2 = 1]

\* The via loop of AX25Decoder.decode (216-221).
RECURSIVE km_via_from(_, _, _, _)
km_via_from(ax25_data, offset, is_last, via_path) ==
    IF ~is_last /\ offset + 7 <= Len(ax25_data)
    THEN LET a == km_decode_callsign(Slice(ax25_data, offset, offset + 7))
         IN km_via_from(ax25_data, offset + 7, a.is_last, Append(via_path, a.callsign))
    ELSE [offset |-> offset, via_path |-> via_path]

\* What AX25Decoder.decode returns when it returns None.
NoFrame == [frame_type |-> "None"]

\* AX25Decoder.decode of kiss-monitor.py.  Every index it uses is inside
\* the data, so the except branch (266-267) is never taken.
km_decode(kiss_frame) ==
    IF Len(kiss_frame) < 1 THEN NoFrame
    ELSE IF kiss_frame[1] % 16 # 0 THEN NoFrame
    ELSE LET ax25_data == Tail(kiss_frame)
         IN IF Len(ax25_data) < 15 THEN NoFrame
            ELSE LET dest == km_decode_callsign(Slice(ax25_data, 0, 7))
                     src == km_decode_callsign(Slice(ax25_data, 7, 14))
                     v == km_via_from(ax25_data, 14, src.is_last, <<>>)
                 IN IF v.offset >= Len(ax25_data) THEN NoFrame
                    ELSE LET control == ax25_data[v.offset + 1]
                             t == km_decode_frame_type(control)
                             o1 == v.offset + 1
                             has_pid == t.frame_type \in {"I", "UI"} /\ o1 < Len(ax25_data)
                             o2 == IF has_pid THEN o1 + 1 ELSE o1
                         IN [source |-> src.callsign, destination |-> dest.callsign,
                             via_path |-> v.via_path, frame_type |-> t.frame_type,
                             control |-> control,
                             pid |-> IF has_pid THEN ax25_data[o1 + 1] ELSE None,
                             payload |-> IF o2 < Len(ax25_data)
                                         THEN Slice(ax25_data, o2, Len(ax25_data))
                                         ELSE <<>>,
                             ns |-> t.ns, nr |-> t.nr, poll_final |-> t.pf]

\* kiss_escape of the test scripts (visual-test.py, interactive-test.py).
RECURSIVE vt_kiss_escape_from(_, _)
vt_kiss_escape_from(data, i) ==
    IF i > Len(data) THEN <<>>
    ELSE (IF data[i] = FEND THEN <<FESC, TFEND>>
          ELSE IF data[i] = FESC THEN <<FESC, TFESC>>
          ELSE <<data[i]>>) \o vt_kiss_escape_from(data, i + 1)

vt_kiss_escape(data) == vt_kiss_escape_from(data, 1)

\* kiss_unescape of the test scripts: the escape branch is taken only when
\* a byte follows the FESC; a FESC in the last position is appended as it is.
RECURSIVE vt_kiss_unescape_from(_, _)
vt_kiss_unescape_from(data, i) ==
    IF i > Len(data) THEN <<>>
    ELSE IF data[i] = FESC /\ i + 1 <= Len(data)
         THEN (IF data[i + 1] = TFEND THEN <<FEND>>
               ELSE IF data[i + 1] = TFESC THEN <<FESC>>
               ELSE <<data[i + 1]>>) \o vt_kiss_unescape_from(data, i + 2)
         ELSE <<data[i]>> \o vt_kiss_unescape_from(data, i + 1)

\* Variant: the substitutes are swapped.
vt_kiss_unescape_swapped(data) ==
    [i \in 1..Len(vt_kiss_unescape_from(data, 1)) |->
        LET b == vt_kiss_unescape_from(data, 1)[i]
        IN IF b = FEND THEN FESC ELSE IF b = FESC THEN FEND ELSE b]

vt_kiss_unescape(data) == vt_kiss_unescape_from(data, 1)

\* One bit of a byte, and the byte with the bits of mask flipped
\* (result[i] ^= 1 << bit for every bit the random draw selected).
Bit(b, n) == (b \div (2 ^ n)) % 2

RECURSIVE XorFrom(_, _, _)
XorFrom(a, b, n) ==
    IF n > 7 THEN 0
    ELSE (IF Bit(a, n) # Bit(b, n) THEN 2 ^ n ELSE 0) + XorFrom(a, b, n + 1)

Xor(a, b) == XorFrom(a, b, 0)

\* apply_bit_errors: flips[i] is the mask of the bits of byte i for which
\* random.random() < ber came out true.
apply_bit_errors(data, rate, flips) ==
    IF rate <= 0 THEN data
    ELSE [i \in 1..Len(data) |-> Xor(data[i], flips[i])]

\* The outcomes of the random draws the model follows: no bit flipped, or
\* the lowest bit of the first byte flipped.
FlipChoices(n) ==
    {[i \in 1..n |-> 0], [i \in 1..n |-> IF i = 1 THEN 1 ELSE 0]}

\* _frame_hash: the first 48 bits of the MD5 digest of the data.  The digest
\* is a function of the bytes alone; a position-weighted sum stands for it,
\* which tells apart all the frames of this model as MD5 does.
RECURSIVE WeightedSum(_, _)
WeightedSum(data, i) ==
    IF i > Len(data) THEN 0 ELSE i * data[i] + WeightedSum(data, i + 1)

frame_hash(ax25_data) == WeightedSum(ax25_data, 1)

\* Line 326: (len * 8 / 1200) * 1000 + TX_DELAY_MS, in clock units.
frame_duration(ax25_data) ==
    (Len(ax25_data) * 8 * 1000 * UnitsPerMs) \div BAUD + Ms(TX_DELAY_MS)

\* The KISS parse loop of handle_station (lines 415-424) over one chunk:
\* the buffer, the in_frame flag and the frames completed, in order.
\* Variant: a frame is emitted at every closing delimiter, empty or not.
RECURSIVE ParseFromEmpty(_, _, _, _, _)
ParseFromEmpty(data, i, buffer, in_frame, frames) ==
    IF i > Len(data) THEN [buffer |-> buffer, in_frame |-> in_frame, frames |-> frames]
    ELSE IF data[i] = FEND
         THEN ParseFromEmpty(data, i + 1, <<>>, TRUE,
                             IF in_frame THEN Append(frames, buffer) ELSE frames)
         ELSE IF in_frame
              THEN ParseFromEmpty(data, i + 1, Append(buffer, data[i]), in_frame, frames)
              ELSE ParseFromEmpty(data, i + 1, buffer, in_frame, frames)

RECURSIVE ParseFrom(_, _, _, _, _)
ParseFrom(data, i, buffer, in_frame, frames) ==
    IF i > Len(data) THEN [buffer |-> buffer, in_frame |-> in_frame, frames |-> frames]
    ELSE IF data[i] = FEND
         THEN ParseFrom(data, i + 1, <<>>, TRUE,
                        IF in_frame /\ Len(buffer) > 0
                        THEN Append(frames, buffer) ELSE frames)
         ELSE IF in_frame
              THEN ParseFrom(data, i + 1, Append(buffer, data[i]), in_frame, frames)
              ELSE ParseFrom(data, i + 1, buffer, in_frame, frames)

ParseChunk(data, buffer, in_frame) == ParseFrom(data, 1, buffer, in_frame, <<>>)

\* kiss_relay.py hands each completed frame to relay_frame between two FENDs.
RelayFrames(frames) == [i \in 1..Len(frames) |-> <<FEND>> \o frames[i] \o <<FEND>>]

\* KISSDecoder.feed of kiss-monitor.py, byte by byte. A FESC is never
\* appended to the buffer, so the branch that tests buffer[-1] == FESC is
\* only entered when it cannot be.
RECURSIVE feed_from(_, _, _, _, _)
feed_from(data, i, buffer, in_frame, frames) ==
    IF i > Len(data) THEN [buffer |-> buffer, in_frame |-> in_frame, frames |-> frames]
    ELSE IF data[i] = FEND
         THEN feed_from(data, i + 1, <<>>, TRUE,
                        IF in_frame /\ Len(buffer) > 0
                        THEN Append(frames, buffer) ELSE frames)
         ELSE IF in_frame
              THEN IF data[i] = FESC
                   THEN feed_from(data, i + 1, buffer, in_frame, frames)
                   ELSE IF Len(buffer) > 0 /\ buffer[Len(buffer)] = FESC
                        THEN feed_from(data, i + 1,
                                       LET cut == SubSeq(buffer, 1, Len(buffer) - 1)
                                       IN IF data[i] = TFEND THEN Append(cut, FEND)
                                          ELSE IF data[i] = TFESC THEN Append(cut, FESC)
                                          ELSE cut,
                                       in_frame, frames)
                        ELSE feed_from(data, i + 1, Append(buffer, data[i]), in_frame, frames)
              ELSE feed_from(data, i + 1, buffer, in_frame, frames)

\* Variant: the decoder starts each call with an empty buffer.
feed_fresh(data, buffer, in_frame) == feed_from(data, 1, <<>>, in_frame, <<>>)

feed(data, buffer, in_frame) == feed_from(data, 1, buffer, in_frame, <<>>)

\* build_kiss_frame of the test scripts.
build_kiss_frame(ax25_data, port) ==
    <<FEND, port * 16>> \o vt_kiss_escape(ax25_data) \o <<FEND>>

\* What reader.read (410) returns, as bytes on the wire: each AX.25 frame
\* above between two FENDs with a command byte, C0 and DB escaped by the
\* peer; and a frame of two bytes.
WIRE_ADDR_ONLY == <<192, 0>> \o AX_ADDR_ONLY \o <<192>>

WIRE_UI == <<192, 16>> \o SubSeq(AX_UI, 1, 16) \o <<219, 220, 219, 221, 192>>

WIRE_SHORT == <<192, 0>> \o AX_SHORT \o <<192>>

WIRE_TINY == <<192, 0, 65, 192>>

\* Two frames that arrive in one read.
WIRE_PAIR == WIRE_UI \o WIRE_ADDR_ONLY

Chunks == {WIRE_ADDR_ONLY, WIRE_UI, WIRE_SHORT, WIRE_TINY, WIRE_PAIR}

\* ------------------------------------------------------------------- state
VARIABLES
    stations,            \* self.stations: port -> set of Station objects
    station_counter,     \* self.station_counter
    frame_counter,       \* self.frame_counter
    channel_busy,        \* self.channel_busy
    channel_busy_until,  \* self.channel_busy_until
    collision_count,     \* self.collision_count
    recent_frames,       \* self.recent_frames: digest -> time
    ber,                 \* self.ber
    lock,                \* the tasks inside an "async with self.lock" block
    st,                  \* the Station objects, in creation order
    conn,                \* the handle_station tasks, in accept order
    tx,                  \* the transmit tasks that have not returned, in create_task order
    running,             \* the task that holds the event loop
    now,                 \* time.time()
    last_heard,          \* history: AX.25 data -> time of its latest accepted transmit
    air_until,           \* history: the latest end of the on-air window of an accepted transmit
    aired,               \* history: per frame id, the time its propagation delay began
    rolls,               \* history: per frame id, the sender and who was registered when
                         \* the delay began and when the recipient list was built,
                         \* and the bytes written for it
    wire,                \* history: per Station object, the frame ids written to it, in order
    delivered,           \* history: per Station object, the drains that returned
    inputs,              \* inputs taken so far
    arg,                 \* the argument of a call of a library function
    res,                 \* what the calls made so far have returned
    phase,               \* which call was made last
    relay                \* the KISSRelay of kiss_relay.py, its connections and its tasks

simvars == <<stations, station_counter, frame_counter, channel_busy, channel_busy_until,
          collision_count, recent_frames, ber, lock, st, conn, tx, running,
          now, last_heard, air_until, aired, rolls, wire, delivered, inputs>>

\* What has been on the air.
onair == <<air_until, aired, rolls>>

\* What a connection's writer has been given, and what it has sent.
sent == <<wire, delivered>>

\* The codec, framer and decoder functions are called on their own, outside
\* the simulator: the argument of the call and what it returned.
lib == <<arg, res, phase>>

vars == <<simvars, lib, relay>>

chan == <<station_counter, frame_counter, channel_busy, channel_busy_until,
          collision_count, recent_frames>>

Idle == <<"idle">>
H(c) == <<"h", c>>
T(k) == <<"t", k>>

\* ------------------------------------------------------------------- lock
\* self.lock (260) is an asyncio.Lock.  Entering "async with self.lock"
\* takes the lock at once when no task is inside; otherwise the task
\* suspends in lock.acquire.  Leaving the block releases it.
LockFree(L) == L = {}

\* Variant: entering the block leaves the lock as it was.
AcquiredNot(L, t) == L

Acquired(L, t) == L \cup {t}

\* Variant: only a connection handler gives the lock back on leaving a block.
ReleasedByHandler(L, t) == IF t[1] = "h" THEN L \ {t} ELSE L

\* Variant: leaving the block keeps the lock.
ReleasedNot(L, t) == L

Released(L, t) == L \ {t}

\* Where a task is after "async with self.lock": inside the block, or
\* suspended in front of it.
EnterPc(L, pc) == IF LockFree(L) THEN pc ELSE "blocked"

EnterLock(L, t) == IF LockFree(L) THEN Acquired(L, t) ELSE L

EnterRun(L, t) == IF LockFree(L) THEN t ELSE Idle

\* ---------------------------------------------------------------- Station
\* Station.__eq__ / __hash__: two Station objects are equal when their ids are.
StationEq(a, b) == st[a].id = st[b].id

\* The Station objects in some registry (the values of self.stations).
Registered == UNION {stations[p] : p \in Range(STATION_PORTS)}

\* Variant: discard removes nothing.
DiscardNothing(S, o) == S

\* Variant: discard empties the set.
DiscardAll(S, o) == {}

\* set.discard (280): the set without the objects equal to o.
Discard(S, o) == {x \in S : ~StationEq(x, o)}

\* Iteration order of a set of Station objects hashed by small distinct ids.
RECURSIVE SetSeq(_)
SetSeq(S) ==
    IF S = {} THEN <<>>
    ELSE LET o == CHOOSE x \in S : \A y \in S : st[x].id <= st[y].id
         IN <<o>> \o SetSeq(S \ {o})

\* Variant: only the sender's own port is relayed to.
RecipientsOnPort(p, from) ==
    IF p = 1
    THEN SelectSeq(SetSeq(stations[st[from].port]), LAMBDA o : ~StationEq(o, from))
    ELSE <<>>

\* Lines 369-373: every registered station, port by port, except the sender.
RECURSIVE RecipientsFrom(_, _)
RecipientsFrom(p, from) ==
    IF p > Len(STATION_PORTS) THEN <<>>
    ELSE SelectSeq(SetSeq(stations[STATION_PORTS[p]]), LAMBDA o : ~StationEq(o, from))
         \o RecipientsFrom(p + 1, from)

\* Variant: the sender is not left out.
RecipientsWithSender(from) == SetSeq(Registered)

\* Variant: a sender that is no longer registered is relayed to nobody.
RecipientsIfRegistered(from) ==
    IF from \in Registered THEN RecipientsFrom(1, from) ELSE <<>>

\* Variant: the stations that were registered when the latest frame was
\* accepted.
RecipientsWhenAccepted(from) ==
    SelectSeq(SetSeq(rolls[Len(rolls)].accepted), LAMBDA o : ~StationEq(o, from))

\* Variant: every station ever registered but the sender, registered or not.
RecipientsEver(from) ==
    SelectSeq([i \in 1..Len(st) |-> i], LAMBDA o : ~StationEq(o, from))

Recipients(from) == RecipientsFrom(1, from)

\* --------------------------------------------------------------- KISSRelay
\* KISSRelay.__init__ (64-68), before any connection.  cl holds the Client
\* objects made so far, conn the connections with what each has sent (heard),
\* tasks the relay_frame tasks; out records what was written to each Client
\* object and snaps the registry each numbered frame found after its delay.
KISSRelay ==
    [clients |-> [p \in {PORT_A, PORT_B} |-> {}], client_counter |-> 0,
     frame_counter |-> 0, cl |-> <<>>, conn |-> <<>>, tasks |-> <<>>,
     out |-> <<>>, snaps |-> <<>>, inputs |-> 0]

\* -------------------------------------------------------------------- Init
\* RFChannel.__init__ (256-265), as main builds it (441).
ChannelInit ==
    /\ stations = [p \in Range(STATION_PORTS) |-> {}]
    /\ station_counter = 0
    /\ frame_counter = 0
    /\ channel_busy = FALSE
    /\ channel_busy_until = 0
    /\ collision_count = 0
    /\ recent_frames = <<>>
    /\ ber = BIT_ERROR_RATE
    /\ lock = {}
    /\ st = <<>>
    /\ conn = <<>>
    /\ tx = <<>>
    /\ running = Idle
    /\ now = 0
    /\ last_heard = <<>>
    /\ air_until = 0
    /\ aired = <<>>
    /\ rolls = <<>>
    /\ wire = <<>>
    /\ delivered = <<>>
    /\ inputs = 0

\* The simulator as main starts it; no library call is going on.
Init ==
    /\ ChannelInit
    /\ arg = <<>>
    /\ res = <<>>
    /\ phase = "none"
    /\ relay = KISSRelay

\* ------------------------------------------------------- connection handler
\* A connection is accepted on an active port and its handler starts:
\* lines 398-403 and add_station up to its lock (269).
HBegin(p) ==
    /\ running = Idle
    /\ inputs < MaxInputs
    /\ inputs' = inputs + 1
    /\ conn' = Append(conn, [port |-> p, pc |-> EnterPc(lock, "add"), station |-> 0,
                             buffer |-> <<>>, in_frame |-> FALSE, exit |-> "none"])
    /\ lock' = EnterLock(lock, H(Len(conn) + 1))
    /\ running' = EnterRun(lock, H(Len(conn) + 1))
    /\ UNCHANGED <<stations, chan, ber, st, tx, now, last_heard, onair, sent>>
    /\ UNCHANGED <<lib, relay>>

\* Variant: the next id is one more than the number of stations registered
\* now.
NextIdReused(counter) == Cardinality(Registered) + 1

\* self.station_counter += 1 (270)
NextId(counter) == counter + 1

\* add_station's body (270-275), then lines 405-410: the handler waits in
\* reader.read.
HAddStation(c) ==
    /\ running = H(c)
    /\ conn[c].pc = "add"
    /\ station_counter' = NextId(station_counter)
    /\ st' = Append(st, [id |-> station_counter', port |-> conn[c].port,
                         tx_count |-> 0, rx_count |-> 0])
    /\ LET o == Len(st) + 1
           S == stations[conn[c].port]
       IN /\ stations' = [stations EXCEPT ![conn[c].port] =
                            IF \E x \in S : st[x].id = station_counter' THEN S
                            ELSE S \cup {o}]
          /\ conn' = [conn EXCEPT ![c].station = o, ![c].pc = "read",
                                  ![c].buffer = <<>>, ![c].in_frame = FALSE]
    /\ lock' = Released(lock, H(c))
    /\ running' = Idle
    /\ wire' = Append(wire, <<>>)
    /\ delivered' = Append(delivered, 0)
    /\ UNCHANGED <<frame_counter, channel_busy, channel_busy_until, collision_count,
                   recent_frames, ber, tx, now, last_heard, onair, inputs>>
    /\ UNCHANGED <<lib, relay>>

\* asyncio.create_task(self.transmit(frame_data, station)) (420): the task
\* with its arguments and its locals still unset.
NewTask(frame, from) ==
    [kiss_frame |-> frame, from |-> from, pc |-> "start", current_time |-> 0,
     kiss_cmd |-> 0, ax25_data |-> <<>>, collided |-> FALSE, frame_id |-> 0,
     is_dupe |-> FALSE, wake |-> 0, kiss_out |-> <<>>, recipients |-> <<>>,
     idx |-> 0]

\* reader.read returns data (410-424): the parse loop runs over the chunk
\* and creates one transmit task per completed frame.
HRead(c, data) ==
    /\ running = Idle
    /\ conn[c].pc = "read"
    /\ inputs < MaxInputs
    /\ inputs' = inputs + 1
    /\ LET r == ParseChunk(data, conn[c].buffer, conn[c].in_frame)
       IN /\ conn' = [conn EXCEPT ![c].buffer = r.buffer, ![c].in_frame = r.in_frame]
          /\ tx' = tx \o [i \in 1..Len(r.frames) |-> NewTask(r.frames[i], conn[c].station)]
    /\ UNCHANGED <<stations, chan, ber, lock, st, running, now, last_heard, onair, sent>>
    /\ UNCHANGED <<lib, relay>>

\* The read loop ends: end of stream (411-412), CancelledError (426-427) or
\* another exception (428-429); the finally block starts remove_station
\* (430-431) up to its lock (279).
HReadEnd(c, cause) ==
    /\ running = Idle
    /\ conn[c].pc = "read"
    /\ inputs < MaxInputs
    /\ inputs' = inputs + 1
    /\ conn' = [conn EXCEPT ![c].pc = EnterPc(lock, "rm"), ![c].buffer = <<>>,
                            ![c].in_frame = FALSE, ![c].exit = cause]
    /\ lock' = EnterLock(lock, H(c))
    /\ running' = EnterRun(lock, H(c))
    /\ UNCHANGED <<stations, chan, ber, st, tx, now, last_heard, onair, sent>>
    /\ UNCHANGED <<lib, relay>>

\* remove_station's body (280-282), then writer.close() and
\* writer.wait_closed (432-436), the handler's last await, which touches
\* nothing of the channel: the handler has ended.
HRemoveStation(c) ==
    /\ running = H(c)
    /\ conn[c].pc = "rm"
    /\ LET o == conn[c].station
       IN stations' = [stations EXCEPT ![st[o].port] = Discard(@, o)]
    /\ lock' = Released(lock, H(c))
    /\ conn' = [conn EXCEPT ![c].pc = "done"]
    /\ running' = Idle
    /\ UNCHANGED <<chan, ber, st, tx, now, last_heard, onair, sent, inputs>>
    /\ UNCHANGED <<lib, relay>>

\* ------------------------------------------------------------ transmit task
\* The task list without task k: a coroutine that has returned is gone.
Without(k) == [i \in 1..(Len(tx) - 1) |-> IF i < k THEN tx[i] ELSE tx[i + 1]]

\* Variant: only the length of the raw frame is tested.
TooShortRawOnly(kiss_frame, ax25_data) == Len(kiss_frame) < MIN_KISS_LEN

\* Variant: a control byte after the two addresses is required too.
TooShortWithoutControl(kiss_frame, ax25_data) ==
    Len(kiss_frame) < MIN_KISS_LEN \/ Len(ax25_data) < MIN_AX25_LEN + 1

\* The two early returns of transmit (302-303, 309-311).
TooShort(kiss_frame, ax25_data) ==
    Len(kiss_frame) < MIN_KISS_LEN \/ Len(ax25_data) < MIN_AX25_LEN

\* Lines 299-317: the task's first run, up to the first lock.  A frame
\* shorter than 3 bytes (302-303) or with fewer than 14 bytes of AX.25 data
\* (309-311) makes the task return.  The frame decoded at 314 is only used
\* in log lines; it is a function of ax25_data (FrameOf) and is not stored.
TStart(k) ==
    /\ running = Idle
    /\ tx[k].pc = "start"
    /\ \A j \in 1..(k - 1) : tx[j].pc # "start"
    /\ LET f == tx[k].kiss_frame
           data == kiss_unescape(Tail(f))
       IN IF TooShort(f, data)
          THEN /\ tx' = Without(k)
               /\ UNCHANGED <<running, lock>>
          ELSE /\ tx' = [tx EXCEPT ![k].pc = EnterPc(lock, "coll"),
                                   ![k].current_time = now,
                                   ![k].kiss_cmd = f[1], ![k].ax25_data = data]
               /\ lock' = EnterLock(lock, T(k))
               /\ running' = EnterRun(lock, T(k))
    /\ UNCHANGED <<stations, chan, ber, st, conn, now, last_heard, onair, sent, inputs>>
    /\ UNCHANGED <<lib, relay>>

\* Variant: no transmit ever collides.
CollidesNever(current_time) == FALSE

\* Variant: the duplicate window is as long as the purge age.
IsDuplicateWide(h, current_time) ==
    h \in DOMAIN recent_frames /\ current_time - recent_frames[h] < Ms(PURGE_AGE_MS)

\* Variant: the busy flag alone decides, whatever the time.
CollidesWhileFlag(current_time) == channel_busy

\* Variant: every transmit collides.
CollidesAlways(current_time) == TRUE

\* Line 318: the channel is busy at the transmit's time.
Collides(current_time) == channel_busy /\ current_time < channel_busy_until

\* Lines 338-340: the digest was seen less than a second before.
IsDuplicate(h, current_time) ==
    h \in DOMAIN recent_frames /\ current_time - recent_frames[h] < Ms(DUPE_WINDOW_MS)

\* Variant: the frame counter is set to one, not incremented.
NextFrameIdOne(counter) == 1

\* self.frame_counter += 1 (330)
NextFrameId(counter) == counter + 1

\* Lines 318-332 under the lock: collision check, busy window, frame and tx
\* counters; then the digest (335) up to the second lock (337).
TCollision(k) ==
    /\ running = T(k)
    /\ tx[k].pc = "coll"
    /\ LET hit == Collides(tx[k].current_time)
           L == Released(lock, T(k))
       IN /\ collision_count' = IF hit THEN collision_count + 1 ELSE collision_count
          /\ tx' = [tx EXCEPT ![k].pc = EnterPc(L, "dupe"), ![k].collided = hit,
                              ![k].frame_id = NextFrameId(frame_counter)]
          /\ lock' = EnterLock(L, T(k))
          /\ running' = EnterRun(L, T(k))
    /\ channel_busy' = TRUE
    /\ channel_busy_until' = tx[k].current_time + frame_duration(tx[k].ax25_data)
    /\ frame_counter' = NextFrameId(frame_counter)
    /\ st' = [st EXCEPT ![tx[k].from].tx_count = @ + 1]
    /\ air_until' = IF channel_busy_until' > air_until
                    THEN channel_busy_until' ELSE air_until
    /\ UNCHANGED <<stations, station_counter, recent_frames, ber, conn, now, last_heard,
                   aired, rolls, sent, inputs>>
    /\ UNCHANGED <<lib, relay>>

\* Variant: the locked block extends over the delay.
HeldOverDelay(L, t) == L

\* Line 345 is the last of the second locked block: the lock is given back
\* before the log lines and the delay of 358.
ReleasedBeforeDelay(L, t) == Released(L, t)

\* Variant: the delay is over as soon as it begins.
DeadlineNone(t) == t

\* Line 358: when a sleep that begins at time t ends.
Deadline(t) == t + Ms(PROPAGATION_DELAY_MS)

\* Variant: no entry is ever old enough to be purged.
IsOldNever(t, current_time) == FALSE

\* Line 343: an entry last seen more than five seconds before.
IsOld(t, current_time) == current_time - t > Ms(PURGE_AGE_MS)

\* Lines 338-345 under the lock, then the log lines and the start of the
\* propagation delay (358).
TDupe(k) ==
    /\ running = T(k)
    /\ tx[k].pc = "dupe"
    /\ LET h == frame_hash(tx[k].ax25_data)
           ct == tx[k].current_time
           dupe == IsDuplicate(h, ct)
           rec == [x \in DOMAIN recent_frames \cup {h} |->
                      IF x = h THEN ct ELSE recent_frames[x]]
           old == {x \in DOMAIN rec : IsOld(rec[x], ct)}
       IN /\ recent_frames' = [x \in DOMAIN rec \ old |-> rec[x]]
          /\ tx' = [tx EXCEPT ![k].pc = "sleep", ![k].is_dupe = dupe,
                              ![k].current_time = 0,
                              ![k].wake = Deadline(now)]
          /\ last_heard' = [d \in DOMAIN last_heard \cup {tx[k].ax25_data} |->
                               IF d = tx[k].ax25_data THEN ct ELSE last_heard[d]]
    /\ aired' = Append(aired, now)
    /\ rolls' = Append(rolls, [from |-> tx[k].from, accepted |-> Registered,
                               fixed |-> FALSE, snapped |-> {}, out |-> <<>>])
    /\ lock' = ReleasedBeforeDelay(lock, T(k))
    /\ running' = Idle
    /\ UNCHANGED <<stations, station_counter, frame_counter, channel_busy,
                   channel_busy_until, collision_count, ber, st, conn, now, air_until,
                   sent, inputs>>
    /\ UNCHANGED <<lib, relay>>

\* Variant: the frame is written without its closing delimiter.
KissOutOpen(cmd, data) == <<FEND, cmd>> \o kiss_escape(data)

\* Line 365: the KISS frame a task writes to each recipient.
KissOut(cmd, data) == <<FEND, cmd>> \o kiss_escape(data) \o <<FEND>>

\* Variant: timers fire in any order.
EarlierAny(k, j) == TRUE

\* The loop's timer heap: the sleep of task k ends no later than that of
\* task j.  Of two sleeps of the same length the one begun first ends first;
\* tasks are listed in the order of their creation and begin to sleep in
\* that order.
Earlier(k, j) == tx[k].wake < tx[j].wake \/ (tx[k].wake = tx[j].wake /\ k <= j)

\* The tasks in asyncio.sleep (358).
Sleeping == {k \in 1..Len(tx) : tx[k].pc = "sleep"}

\* The delay is over (358): the loop runs its timers in the order of their
\* deadlines and never before them, so the clock is at the deadline or past
\* it.  Then lines 361-365 up to the lock of line 368.
TWake(k) ==
    /\ running = Idle
    /\ tx[k].pc = "sleep"
    /\ \A j \in Sleeping : Earlier(k, j)
    /\ now' = IF now >= tx[k].wake THEN now ELSE tx[k].wake
    /\ \E flips \in FlipChoices(Len(tx[k].ax25_data)) :
         LET data == IF ber > 0 THEN apply_bit_errors(tx[k].ax25_data, ber, flips)
                     ELSE tx[k].ax25_data
             out == KissOut(tx[k].kiss_cmd, data)
         IN /\ tx' = [tx EXCEPT ![k].pc = EnterPc(lock, "snap"), ![k].ax25_data = data,
                                ![k].wake = 0, ![k].kiss_out = out]
            /\ rolls' = [rolls EXCEPT ![tx[k].frame_id].out = out]
    /\ lock' = EnterLock(lock, T(k))
    /\ running' = EnterRun(lock, T(k))
    /\ UNCHANGED <<stations, chan, ber, st, conn, last_heard, air_until, aired, sent,
                   inputs>>
    /\ UNCHANGED <<lib, relay>>

\* The loop of lines 375-382 goes on: writer.write to the next recipient
\* (377) and the wait in writer.drain (378); or the list is exhausted and
\* the task returns after line 384.
Advance(k) ==
    IF tx[k].idx < Len(tx[k].recipients)
    THEN /\ tx' = [tx EXCEPT ![k].pc = "drain", ![k].idx = @ + 1]
         /\ wire' = [wire EXCEPT ![tx[k].recipients[tx[k].idx + 1]] =
                                    Append(@, tx[k].frame_id)]
    ELSE /\ tx' = Without(k)
         /\ wire' = wire

\* Variant: the exception ends the task.
OnWriteErrorAbort(k) == tx' = Without(k) /\ wire' = wire

\* Lines 381-382: the exception of a write or drain is caught and logged,
\* and the loop goes on with the next recipient.
OnWriteError(k) == Advance(k)

\* Lines 369-373: the recipient list is built under the lock; then the
\* first write (375-378).
TSnapshot(k) ==
    /\ running = T(k)
    /\ tx[k].pc = "snap"
    /\ LET r == Recipients(tx[k].from)
       IN IF r = <<>>
          THEN /\ tx' = Without(k)
               /\ wire' = wire
          ELSE /\ tx' = [tx EXCEPT ![k].pc = "drain", ![k].recipients = r, ![k].idx = 1]
               /\ wire' = [wire EXCEPT ![r[1]] = Append(@, tx[k].frame_id)]
    /\ rolls' = [rolls EXCEPT ![tx[k].frame_id].fixed = TRUE,
                               ![tx[k].frame_id].snapped = Registered]
    /\ lock' = Released(lock, T(k))
    /\ running' = Idle
    /\ UNCHANGED <<stations, chan, ber, st, conn, now, last_heard, air_until, aired,
                   delivered, inputs>>
    /\ UNCHANGED <<lib, relay>>

\* drain returns (378) and the task goes for the lock of line 379; or write
\* or drain raised, the exception is caught and logged (381-382) and the
\* loop goes on.
TDrain(k, ok) ==
    /\ running = Idle
    /\ tx[k].pc = "drain"
    /\ IF ok
       THEN /\ tx' = [tx EXCEPT ![k].pc = EnterPc(lock, "rx")]
            /\ lock' = EnterLock(lock, T(k))
            /\ running' = EnterRun(lock, T(k))
            /\ delivered' = [delivered EXCEPT ![tx[k].recipients[tx[k].idx]] = @ + 1]
            /\ wire' = wire
       ELSE /\ OnWriteError(k)
            /\ UNCHANGED <<lock, running, delivered>>
    /\ UNCHANGED <<stations, chan, ber, st, conn, now, last_heard, onair, inputs>>
    /\ UNCHANGED <<lib, relay>>

\* Variant: the first station of the snapshot.
ReceiverFirst(k) == tx[k].recipients[1]

\* The loop variable of line 375: the station being written to.
Receiver(k) == tx[k].recipients[tx[k].idx]

\* Line 380 under the lock: rx_count; then the loop goes on.
TRxCount(k) ==
    /\ running = T(k)
    /\ tx[k].pc = "rx"
    /\ st' = [st EXCEPT ![Receiver(k)].rx_count = @ + 1]
    /\ lock' = Released(lock, T(k))
    /\ Advance(k)
    /\ running' = Idle
    /\ UNCHANGED <<stations, chan, ber, conn, now, last_heard, onair, delivered, inputs>>
    /\ UNCHANGED <<lib, relay>>

\* ------------------------------------------------------------------- clock
\* Time passes between two runs of the event loop.
Tick(d) ==
    /\ running = Idle
    /\ inputs < MaxInputs
    /\ now' = now + d
    /\ inputs' = inputs + 1
    /\ UNCHANGED <<stations, chan, ber, lock, st, conn, tx, running, last_heard,
                   onair, sent>>
    /\ UNCHANGED <<lib, relay>>

\* -------------------------------------------------------------------- Next
Next ==
    \/ \E p \in Range(ACTIVE_PORTS) : HBegin(p)
    \/ \E c \in 1..Len(conn) : HAddStation(c)
    \/ \E c \in 1..Len(conn) : \E data \in Chunks : HRead(c, data)
    \/ \E c \in 1..Len(conn) : \E cause \in {"eof", "cancelled", "error"} : HReadEnd(c, cause)
    \/ \E c \in 1..Len(conn) : HRemoveStation(c)
    \/ \E k \in 1..Len(tx) : TStart(k)
    \/ \E k \in 1..Len(tx) : TCollision(k)
    \/ \E k \in 1..Len(tx) : TDupe(k)
    \/ \E k \in 1..Len(tx) : TWake(k)
    \/ \E k \in 1..Len(tx) : TSnapshot(k)
    \/ \E k \in 1..Len(tx) : \E ok \in BOOLEAN : TDrain(k, ok)
    \/ \E k \in 1..Len(tx) : TRxCount(k)
    \/ \E d \in TickSteps : Tick(d)

Spec == Init /\ [][Next]_vars

\* ----------------------------------------------------------- library calls
\* The bytes the calls are made on: an ordinary byte and the four KISS
\* special bytes.
Bytes == {65, FEND, FESC, TFEND, TFESC}

ByteSeqs(n) == UNION {[1..m -> Bytes] : m \in 0..n}

\* str.split("-"): the parts of a string between its hyphens.
RECURSIVE SplitFrom(_, _, _, _)
SplitFrom(str, i, part, parts) ==
    IF i > Len(str) THEN Append(parts, part)
    ELSE IF str[i] = 45 THEN SplitFrom(str, i + 1, <<>>, Append(parts, part))
    ELSE SplitFrom(str, i + 1, Append(part, str[i]), parts)

\* int(digits) for a string of decimal digits.
RECURSIVE IntFrom(_, _, _)
IntFrom(digits, i, n) ==
    IF i > Len(digits) THEN n ELSE IntFrom(digits, i + 1, 10 * n + (digits[i] - 48))

\* The parsing build_ui_frame applies to source, dest and each repeater
\* (297-303, 315-317): upper case, split at the hyphens, the first part the
\* callsign, the second the SSID, 0 when there is none.
Parts(station) ==
    LET parts == SplitFrom([i \in 1..Len(station) |-> Upper(station[i])], 1, <<>>, <<>>)
    IN [call |-> parts[1],
        ssid |-> IF Len(parts) > 1 THEN IntFrom(parts[2], 1, 0) ELSE 0]

\* The address fields of the repeaters from the i-th on (314-318).
RECURSIVE ViaFields(_, _)
ViaFields(via, i) ==
    IF i > Len(via) THEN <<>>
    ELSE encode_ax25_address(Parts(via[i]).call, Parts(via[i]).ssid, i = Len(via))
         \o ViaFields(via, i + 1)

\* build_ui_frame with the last flag of the source address given.
BuildFrame(source, dest, payload, via, source_last) ==
    encode_ax25_address(Parts(dest).call, Parts(dest).ssid, FALSE)
    \o encode_ax25_address(Parts(source).call, Parts(source).ssid, source_last)
    \o ViaFields(via, 1)
    \o <<3, 240>>
    \o payload

\* Variant: the source address is always marked last.
build_ui_frame_source_last(source, dest, payload, via) ==
    BuildFrame(source, dest, payload, via, TRUE)

\* build_ui_frame of visual-test.py; via is the empty list when none is given.
build_ui_frame(source, dest, payload, via) ==
    BuildFrame(source, dest, payload, via, Len(via) = 0)

\* AXDP_MAGIC = b"AXT1"
AXDP_MAGIC == <<65, 88, 84, 49>>

\* bytes.startswith
StartsWith(data, prefix) ==
    Len(data) >= Len(prefix) /\ SubSeq(data, 1, Len(prefix)) = prefix

\* The via loop of visual-test.py's decode_ax25_frame (264-268).  An
\* AX25Address object is true, and the loop's test leaves no field cut short.
RECURSIVE vt_via_from(_, _, _, _)
vt_via_from(data, offset, is_last, via) ==
    IF ~is_last /\ offset + 7 <= Len(data)
    THEN LET a == vt_decode_ax25_address(data, offset)
         IN vt_via_from(data, a.offset, a.is_last, Append(via, a.address))
    ELSE [offset |-> offset, via |-> via]

\* decode_ax25_frame of visual-test.py.  The frame type is the name
\* decode_frame_type gives, with code the control byte of a label U(xx),
\* or AXDP for a payload that begins with the marker.
vt_decode_ax25_frame(data) ==
    IF Len(data) < 14
    THEN [dest |-> "None", source |-> "None", via |-> <<>>, frame_type |-> "?",
          code |-> None, pid |-> None, payload |-> <<>>, is_axdp |-> FALSE]
    ELSE LET dest == vt_decode_ax25_address(data, 0)
             source == vt_decode_ax25_address(data, dest.offset)
             path == vt_via_from(data, source.offset, source.is_last, <<>>)
             offset == path.offset
             has_control == offset < Len(data)
             type == IF has_control THEN vt_decode_frame_type(data[offset + 1])
                     ELSE [frame_type |-> "?", code |-> None]
             has_pid == /\ has_control
                        /\ type.frame_type \in {"I", "UI"}
                        /\ offset + 1 < Len(data)
             payload == IF has_pid /\ offset + 2 < Len(data)
                        THEN SubSeq(data, offset + 3, Len(data)) ELSE <<>>
             is_axdp == StartsWith(payload, AXDP_MAGIC)
         IN [dest |-> dest.address, source |-> source.address, via |-> path.via,
             frame_type |-> IF is_axdp THEN "AXDP" ELSE type.frame_type,
             code |-> type.code,
             pid |-> IF has_pid THEN data[offset + 2] ELSE None,
             payload |-> payload, is_axdp |-> is_axdp]

\* The calls made: on a byte string.
CallArgs == {[fn |-> "bytes", data |-> d] : d \in ByteSeqs(MaxData)}

\* The callsigns encode_ax25_address is called with, as character codes:
\* short ones over A, Z and a, and one of full length.
CallChars == {65, 90, 97}

Callsigns ==
    UNION {[1..m -> CallChars] : m \in 0..MaxCall} \cup {<<65, 66, 67, 68, 69, 70>>}

AddressArgs ==
    {[fn |-> "address", callsign |-> c, ssid |-> n, is_last |-> l] :
        c \in Callsigns, n \in 0..15, l \in BOOLEAN}

\* Every control byte.
ControlArgs == {[fn |-> "control", control |-> c] : c \in 0..255}

\* The frames the decoders are called with: destination and source address
\* (the source being the last address, or followed by a repeater address, or
\* not last with nothing after it), any control byte, up to MaxInfo more
\* bytes; and every frame cut short of its control byte.
ADDR_DEST == encode_ax25_address(<<67, 81>>, 0, FALSE)

INFO_BYTES == <<240, 65, 66, 67>>

FrameHeads ==
    {ADDR_DEST \o encode_ax25_address(<<65, 66, 67>>, 2, TRUE),
     ADDR_DEST \o encode_ax25_address(<<65, 66, 67>>, 2, FALSE),
     ADDR_DEST \o encode_ax25_address(<<65, 66, 67>>, 2, FALSE)
               \o encode_ax25_address(<<82, 80, 84>>, 1, TRUE)}

Frames ==
    {h \o <<c>> \o SubSeq(INFO_BYTES, 1, n) : h \in FrameHeads, c \in 0..255, n \in 0..MaxInfo}
    \cup UNION {{SubSeq(h, 1, n) : n \in 0..Len(h)} : h \in FrameHeads}

FrameArgs == {[fn |-> "frame", data |-> d] : d \in Frames}

\* The KISS ports build_kiss_frame is called with.
KissPorts == {0, 1}

\* The stations build_ui_frame is called with, as character codes: "A",
\* "AZ-1", "Z9-15", "ABCDEF-7", and "az-2" in lower case.
StationNames ==
    {<<65>>, <<65, 90, 45, 49>>, <<90, 57, 45, 49, 53>>,
     <<65, 66, 67, 68, 69, 70, 45, 55>>, <<97, 122, 45, 50>>}

\* Repeater paths of up to two stations.
ViaPaths ==
    {<<>>} \cup {<<v>> : v \in {<<65, 90, 45, 49>>, <<90, 57, 45, 49, 53>>}}
    \cup {<<<<90, 57, 45, 49, 53>>, <<65>>>>, <<<<65, 90, 45, 49>>, <<65, 90, 45, 49>>>>}

\* Payloads: none, text, bytes that KISS would escape, one that begins
\* with the AXDP marker.
Payloads == {<<>>, <<72, 73>>, <<192, 219>>, AXDP_MAGIC \o <<1>>}

UIArgs ==
    {[fn |-> "ui", source |-> s, dest |-> d, payload |-> p, via |-> v] :
        s \in StationNames, d \in StationNames, p \in Payloads, v \in ViaPaths}

LibInit ==
    /\ ChannelInit
    /\ arg \in CallArgs \cup AddressArgs \cup ControlArgs \cup FrameArgs \cup UIArgs
    /\ res = <<>>
    /\ phase = "start"
    /\ relay = KISSRelay

\* _kiss_escape(data) and the scripts' kiss_escape(data).
Escape ==
    /\ phase = "start"
    /\ arg.fn = "bytes"
    /\ res' = [escaped |-> kiss_escape(arg.data),
               vt_escaped |-> vt_kiss_escape(arg.data)]
    /\ phase' = "escaped"
    /\ UNCHANGED <<simvars, relay, arg>>

\* kiss_unescape on what the escape call returned.
Unescape ==
    /\ phase = "escaped"
    /\ res' = [escaped |-> res.escaped,
               vt_escaped |-> res.vt_escaped,
               unescaped |-> kiss_unescape(res.escaped),
               vt_unescaped |-> vt_kiss_unescape(res.vt_escaped)]
    /\ phase' = "unescaped"
    /\ UNCHANGED <<simvars, relay, arg>>

\* kiss_unescape on bytes as received.
UnescapeReceived ==
    /\ phase = "start"
    /\ arg.fn = "bytes"
    /\ res' = [unescaped |-> kiss_unescape(arg.data),
               vt_unescaped |-> vt_kiss_unescape(arg.data)]
    /\ phase' = "received"
    /\ UNCHANGED <<simvars, relay, arg>>

\* A connection's framer state as its handler creates it (buffer empty,
\* in_frame False) and KISSDecoder.__init__, about to receive stream.
Framers(stream, built) ==
    [stream |-> stream, built |-> built, pos |-> 0,
     buffer |-> <<>>, in_frame |-> FALSE, frames |-> <<>>, relayed |-> <<>>,
     kd_buffer |-> <<>>, kd_in_frame |-> FALSE, kd_frames |-> <<>>,
     cut_frame |-> FALSE, cut_escape |-> FALSE]

\* The bytes arrive as they are.
NewFramer ==
    /\ phase = "start"
    /\ arg.fn = "bytes"
    /\ res' = Framers(arg.data, FALSE)
    /\ phase' = "feeding"
    /\ UNCHANGED <<simvars, relay, arg>>

\* The bytes are sent as one KISS frame built by build_kiss_frame.
BuildKissFrame(port) ==
    /\ phase = "start"
    /\ arg.fn = "bytes"
    /\ res' = Framers(build_kiss_frame(arg.data, port), TRUE)
    /\ phase' = "feeding"
    /\ UNCHANGED <<simvars, relay, arg>>

\* One read returns the next n bytes of the stream; the handler's loop
\* and KISSDecoder.feed run over them. cut_frame and cut_escape record that
\* a read ended inside a frame, and right after a FESC inside a frame.
Feed(n) ==
    /\ phase = "feeding"
    /\ res.pos + n <= Len(res.stream)
    /\ LET data == SubSeq(res.stream, res.pos + 1, res.pos + n)
           r == ParseChunk(data, res.buffer, res.in_frame)
           k == feed(data, res.kd_buffer, res.kd_in_frame)
       IN res' = [res EXCEPT !.pos = @ + n,
                             !.buffer = r.buffer,
                             !.in_frame = r.in_frame,
                             !.frames = @ \o r.frames,
                             !.relayed = @ \o RelayFrames(r.frames),
                             !.kd_buffer = k.buffer,
                             !.kd_in_frame = k.in_frame,
                             !.kd_frames = @ \o k.frames,
                             !.cut_frame = @ \/ (Len(r.buffer) > 0
                                                  /\ res.pos + n < Len(res.stream)),
                             !.cut_escape = @ \/ (r.in_frame
                                                   /\ res.stream[res.pos + n] = FESC
                                                   /\ res.pos + n < Len(res.stream))]
    /\ UNCHANGED <<simvars, relay, arg, phase>>

\* encode_ax25_address(callsign, ssid, is_last)
EncodeAddress ==
    /\ phase = "start"
    /\ arg.fn = "address"
    /\ res' = [field |-> encode_ax25_address(arg.callsign, arg.ssid, arg.is_last)]
    /\ phase' = "encoded"
    /\ UNCHANGED <<simvars, relay, arg>>

\* decode_ax25_address(field, 0), the simulator's and the scripts'.
DecodeAddress ==
    /\ phase = "encoded"
    /\ res' = [field |-> res.field,
               decoded |-> decode_ax25_address(res.field, 0),
               vt_decoded |-> vt_decode_ax25_address(res.field, 0)]
    /\ phase' = "address"
    /\ UNCHANGED <<simvars, relay, arg>>

\* The control byte is classified: by the control branch of the simulator's
\* decode_ax25_frame on a fresh AX25Frame, by decode_frame_type of
\* visual-test.py, and by the monitor's decode_frame_type, whose result the
\* monitor then counts.
Classify ==
    /\ phase = "start"
    /\ arg.fn = "control"
    /\ res' = [frame |-> Classified(AX25Frame(<<>>), arg.control),
               km |-> km_decode_frame_type(arg.control),
               vt |-> vt_decode_frame_type(arg.control),
               counted |-> km_counted(km_decode_frame_type(arg.control).frame_type)]
    /\ phase' = "classified"
    /\ UNCHANGED <<simvars, relay, arg>>

\* decode_ax25_frame(data) of the simulator, and AX25Decoder.decode of the
\* monitor on the KISS frame with command byte cmd in front of the data.
DecodeFrame(cmd) ==
    /\ phase = "start"
    /\ arg.fn = "frame"
    /\ res' = [cmd |-> cmd,
               frame |-> decode_ax25_frame(arg.data),
               km |-> km_decode(<<cmd>> \o arg.data)]
    /\ phase' = "frame"
    /\ UNCHANGED <<simvars, relay, arg>>

\* build_ui_frame(source, dest, payload, via)
BuildUIFrame ==
    /\ phase = "start"
    /\ arg.fn = "ui"
    /\ res' = [frame |-> build_ui_frame(arg.source, arg.dest, arg.payload, arg.via)]
    /\ phase' = "ui"
    /\ UNCHANGED <<simvars, relay, arg>>

\* decode_ax25_frame of visual-test.py on the frame that was built.
DecodeUIFrame ==
    /\ phase = "ui"
    /\ res' = [frame |-> res.frame, decoded |-> vt_decode_ax25_frame(res.frame)]
    /\ phase' = "ui_decoded"
    /\ UNCHANGED <<simvars, relay, arg>>

LibNext ==
    \/ Escape
    \/ Unescape
    \/ UnescapeReceived
    \/ NewFramer
    \/ \E port \in KissPorts : BuildKissFrame(port)
    \/ \E n \in 1..(2 * MaxData + 3) : Feed(n)
    \/ EncodeAddress
    \/ DecodeAddress
    \/ Classify
    \/ \E cmd \in {0, 1} : DecodeFrame(cmd)
    \/ BuildUIFrame
    \/ DecodeUIFrame

LibSpec == LibInit /\ [][LibNext]_vars

\* Fairness: the event loop runs every task that is ready, fires every
\* timer that is due, and a drain on a connection returns or raises.  Only
\* the inputs (accepts, reads, stream ends, the clock between runs) are
\* left to the environment.
TaskStep ==
    \/ \E c \in 1..Len(conn) : HAddStation(c) \/ HRemoveStation(c)
    \/ \E k \in 1..Len(tx) : TStart(k) \/ TCollision(k) \/ TDupe(k) \/ TWake(k)
                             \/ TSnapshot(k) \/ TRxCount(k)
    \/ \E k \in 1..Len(tx) : \E ok \in BOOLEAN : TDrain(k, ok)

FairSpec == Spec /\ WF_vars(TaskStep)

\* ============================================================== KISS relay
\* How many connections, reads and disconnects the relay is given.
MaxRelayInputs == 5

\* What a client sends in one read: a whole frame, a frame that holds an
\* escape pair, the beginning of a frame, its end.
RELAY_ESCAPED == <<192, 0, 219, 220, 192>>
RELAY_HEAD == <<192, 1, 66>>
RELAY_TAIL == <<67, 192>>

RelayChunks == {WIRE_TINY, RELAY_ESCAPED, RELAY_HEAD, RELAY_TAIL}

\* Variant: the frame goes back to the port it came from.
get_peer_port_same(port) == port

\* get_peer_port (70-72).
get_peer_port(port) == IF port = PORT_A THEN PORT_B ELSE PORT_A

\* Iteration order of a set of Client objects hashed by small distinct ids.
RECURSIVE ClientSeq(_)
ClientSeq(S) ==
    IF S = {} THEN <<>>
    ELSE LET o == CHOOSE x \in S : \A y \in S : relay.cl[x].id <= relay.cl[y].id
         IN <<o>> \o ClientSeq(S \ {o})

\* handle_client up to its first read (117-129): add_client (74-82) runs
\* under the lock, which no block of the relay holds across a suspension.
RAddClient(port) ==
    /\ relay.inputs < MaxRelayInputs
    /\ LET id == relay.client_counter + 1
           o == Len(relay.cl) + 1
           S == relay.clients[port]
       IN relay' = [relay EXCEPT
                       !.client_counter = id,
                       !.cl = Append(@, [id |-> id, port |-> port]),
                       !.clients[port] = IF \E x \in S : relay.cl[x].id = id
                                         THEN S ELSE S \cup {o},
                       !.conn = Append(@, [port |-> port, client |-> o, pc |-> "read",
                                           buffer |-> <<>>, in_frame |-> FALSE,
                                           heard |-> <<>>]),
                       !.out = Append(@, <<>>),
                       !.inputs = @ + 1]
    /\ UNCHANGED <<simvars, lib>>

\* asyncio.create_task(self.relay_frame(frame, port, client)) (139) and the
\* task's first run (93-97), which reads no shared state: the peer port is
\* computed and the task sleeps.
NewRelayTask(frame, c) ==
    [frame |-> frame, conn |-> c, from_port |-> relay.conn[c].port,
     from_client |-> relay.conn[c].client,
     to_port |-> get_peer_port(relay.conn[c].port),
     pc |-> "sleep", frame_id |-> 0, recipients |-> <<>>, idx |-> 0]

\* reader.read returns data (129-143): the parse loop runs over the chunk
\* and creates one relay_frame task per completed frame, the buffered bytes
\* between two delimiters.
RRead(c, data) ==
    /\ relay.inputs < MaxRelayInputs
    /\ relay.conn[c].pc = "read"
    /\ LET r == ParseChunk(data, relay.conn[c].buffer, relay.conn[c].in_frame)
           frames == RelayFrames(r.frames)
       IN relay' = [relay EXCEPT
                       !.conn[c].buffer = r.buffer,
                       !.conn[c].in_frame = r.in_frame,
                       !.conn[c].heard = @ \o data,
                       !.tasks = @ \o [i \in 1..Len(frames) |-> NewRelayTask(frames[i], c)],
                       !.inputs = @ + 1]
    /\ UNCHANGED <<simvars, lib>>

\* The read loop ends (130-131, 145-148): remove_client (84-89) and the
\* close of the connection (150-155).
RReadEnd(c) ==
    /\ relay.inputs < MaxRelayInputs
    /\ relay.conn[c].pc = "read"
    /\ LET o == relay.conn[c].client
       IN relay' = [relay EXCEPT
                       !.clients[relay.conn[c].port] =
                           {x \in @ : relay.cl[x].id # relay.cl[o].id},
                       !.conn[c].pc = "done",
                       !.inputs = @ + 1]
    /\ UNCHANGED <<simvars, lib>>

\* The relay's task list without task k.
RelayWithout(k) ==
    [i \in 1..(Len(relay.tasks) - 1) |->
        IF i < k THEN relay.tasks[i] ELSE relay.tasks[i + 1]]

\* The loop of 110-115 goes on: the write to the next client of the list
\* (112) and the wait in drain (113); or the list is exhausted and the task
\* returns.
RelayAdvance(R, k, t) ==
    IF t.idx < Len(t.recipients)
    THEN [R EXCEPT !.tasks[k] = [t EXCEPT !.pc = "drain", !.idx = @ + 1],
                   !.out[t.recipients[t.idx + 1]] =
                       Append(@, [id |-> t.frame_id, bytes |-> t.frame])]
    ELSE [R EXCEPT !.tasks = RelayWithout(k)]

\* The delay is over (96-97); all delays are equally long, so the task that
\* began to sleep first wakes first.  Under the lock the frame is numbered
\* and the clients of the peer port are listed (99-102); then the first
\* write (112).
RWake(k) ==
    /\ relay.tasks[k].pc = "sleep"
    /\ \A j \in 1..(k - 1) : relay.tasks[j].pc # "sleep"
    /\ LET id == relay.frame_counter + 1
           t == [relay.tasks[k] EXCEPT
                    !.frame_id = id,
                    !.recipients = ClientSeq(relay.clients[relay.tasks[k].to_port])]
           numbered == [relay EXCEPT
                           !.frame_counter = id,
                           !.snaps = Append(@, [clients |-> relay.clients,
                                                recipients |-> t.recipients,
                                                conn |-> t.conn])]
       IN relay' = RelayAdvance(numbered, k, t)
    /\ UNCHANGED <<simvars, lib>>

\* drain returns, or write or drain raised and the exception is logged
\* (114-115): either way the loop goes on.
RDrain(k) ==
    /\ relay.tasks[k].pc = "drain"
    /\ relay' = RelayAdvance(relay, k, relay.tasks[k])
    /\ UNCHANGED <<simvars, lib>>

RelayNext ==
    \/ \E port \in {PORT_A, PORT_B} : RAddClient(port)
    \/ \E c \in 1..Len(relay.conn) : \E data \in RelayChunks : RRead(c, data)
    \/ \E c \in 1..Len(relay.conn) : RReadEnd(c)
    \/ \E k \in 1..Len(relay.tasks) : RWake(k)
    \/ \E k \in 1..Len(relay.tasks) : RDrain(k)

RelaySpec == Init /\ [][RelayNext]_vars

\* ============================================================== properties
NoDup(s) == \A i, j \in 1..Len(s) : i # j => s[i] # s[j]

\* The registered stations that are not the station o.
Others(o) == {x \in Registered : st[x].id # st[o].id}

\* The handler of station o has ended and closed its connection.
Gone(o) == \E c \in 1..Len(conn) : conn[c].station = o /\ conn[c].pc = "done"

\* In this step task k returns.
Returned(k) == Len(tx') = Len(tx) - 1 /\ tx' = Without(k)

\* In this step task k stays and only the given fields of it change.
Stays(k, rec) == Len(tx') = Len(tx) /\ tx'[k] = rec

\* In this step task k writes to its next recipient, or returns when there
\* is none left.
Continues(k) ==
    IF tx[k].idx < Len(tx[k].recipients)
    THEN Stays(k, [tx[k] EXCEPT !.pc = "drain", !.idx = @ + 1])
    ELSE Returned(k)

\* The steps of task k's fan-out.
Snapshots(k) == running = T(k) /\ tx[k].pc = "snap"

DrainEnds(k) ==
    /\ running = Idle
    /\ tx[k].pc = "drain"
    /\ tx' # tx
    /\ IF Len(tx') = Len(tx) THEN tx'[k] # tx[k] ELSE Returned(k)

Counts(k) == running = T(k) /\ tx[k].pc = "rx"

\* What a step does when it belongs to task k's fan-out: the snapshot holds
\* each registered station other than the sender once, the first write goes
\* to its first element; a drain that returns is followed by the count, one
\* that fails by the next write with no station counter changed; a count
\* adds one to the rx_count of the station written to and is followed by
\* the next write.  The task returns exactly when no recipient is left.
FanOut(k) ==
    /\ Snapshots(k) =>
         IF Others(tx[k].from) = {} THEN Returned(k)
         ELSE /\ Len(tx') = Len(tx)
              /\ tx'[k].pc = "drain" /\ tx'[k].idx = 1
              /\ NoDup(tx'[k].recipients)
              /\ Range(tx'[k].recipients) = Others(tx[k].from)
    /\ DrainEnds(k) =>
         \/ Stays(k, [tx[k] EXCEPT !.pc = "rx"])
         \/ st' = st /\ Continues(k)
    /\ Counts(k) =>
         /\ st' = [st EXCEPT ![tx[k].recipients[tx[k].idx]].rx_count = @ + 1]
         /\ Continues(k)

\* C1: whatever the interleaving of registrations, disconnects and
\* transmits, the recipient list of a transmit task never holds the station
\* that sent the frame, and the station a task writes to is an element of
\* that list: no frame is written to its sender's connection.
C1_NeverToSender ==
    \A k \in 1..Len(tx) :
        /\ \A i \in 1..Len(tx[k].recipients) :
              /\ tx[k].recipients[i] # tx[k].from
              /\ st[tx[k].recipients[i]].id # st[tx[k].from].id
        /\ tx[k].pc \in {"drain", "rx"} => tx[k].idx \in 1..Len(tx[k].recipients)

\* A frame is being written to another station while its sender is registered.
C1_Witness ==
    \E k \in 1..Len(tx) : tx[k].pc = "drain" /\ tx[k].from \in Registered

\* C2: for every accepted frame the snapshot holds every station other than
\* the sender registered on any port at that moment, each once; each element
\* is written to once, in turn, and when its drain returns the station's
\* rx_count rises by one: with no failed write every such station gets
\* exactly one copy.
C2_OneCopyEach == [][\A k \in 1..Len(tx) : FanOut(k)]_vars

\* One frame has reached a station on the sender's port and one on another.
C2_Witness ==
    /\ tx = <<>>
    /\ frame_counter = 1
    /\ \E s, a, b \in 1..Len(st) :
          /\ st[s].tx_count = 1
          /\ a # s /\ st[a].port = st[s].port /\ st[a].rx_count = 1
          /\ st[b].port # st[s].port /\ st[b].rx_count = 1

\* C3: a transmit accepted at a time before the channel_busy_until that an
\* earlier accepted transmit has left adds exactly one to collision_count,
\* and only such a step changes the counter; the task goes on, and its
\* fan-out is that of any other frame.
C3_CollisionCounted ==
    /\ [][\A k \in 1..Len(tx) :
             (running = T(k) /\ tx[k].pc = "coll" /\ frame_counter > 0
                /\ tx[k].current_time < channel_busy_until)
             => /\ collision_count' = collision_count + 1
                /\ Stays(k, [tx[k] EXCEPT !.pc = "dupe", !.collided = TRUE,
                                          !.frame_id = frame_counter + 1])]_vars
    /\ [][collision_count' # collision_count
             => /\ collision_count' = collision_count + 1
                /\ \E k \in 1..Len(tx) : running = T(k) /\ tx[k].pc = "coll"]_vars
    /\ [][\A k \in 1..Len(tx) : tx[k].collided => FanOut(k)]_vars

\* Two frames were sent, the second collided, and both reached the other station.
C3_Witness ==
    /\ collision_count = 1
    /\ frame_counter = 2
    /\ \E o \in 1..Len(st) : st[o].rx_count = 2

\* C4: a transmit is flagged duplicate exactly when the same AX.25 data
\* was last transmitted less than one second before it; the first transmit
\* of some data is not flagged, nor is a repeat five seconds or more after
\* the latest one; flagged or not, the fan-out of the frame is the same.
C4_DuplicateFlag ==
    /\ [][\A k \in 1..Len(tx) :
             (running = T(k) /\ tx[k].pc = "dupe")
             => LET d == tx[k].ax25_data
                    ct == tx[k].current_time
                    first == d \notin DOMAIN last_heard
                IN /\ Len(tx') = Len(tx)
                   /\ tx'[k].is_dupe <=> (~first /\ ct - last_heard[d] < Ms(1000))
                   /\ first => ~tx'[k].is_dupe
                   /\ (~first /\ ct - last_heard[d] >= Ms(5000)) => ~tx'[k].is_dupe]_vars
    /\ [][\A k \in 1..Len(tx) :
             tx[k].ax25_data \in DOMAIN last_heard => FanOut(k)]_vars

\* A frame flagged duplicate is being written to a recipient.
C4_Witness ==
    \E k \in 1..Len(tx) : tx[k].is_dupe /\ tx[k].pc = "drain"

\* The AX.25 data a task was given, as it arrived.
Original(k) == kiss_unescape(Tail(tx[k].kiss_frame))

\* C5: with bit-error rate 0 the bytes a task has written to the recipient
\* whose drain it waits for are FEND, the command byte of the transmitted
\* frame, a body that unescapes to the AX.25 bytes of the transmitted
\* frame, FEND; and apply_bit_errors at rate 0 returns its input whatever
\* the random draws are.
C5_Unchanged ==
    /\ \A k \in 1..Len(tx) :
          (ber = 0 /\ tx[k].pc = "drain")
          => LET out == tx[k].kiss_out
             IN /\ Len(out) >= 3
                /\ out[1] = 192 /\ out[Len(out)] = 192
                /\ out[2] = tx[k].kiss_frame[1]
                /\ \A i \in 2..(Len(out) - 1) : out[i] # 192 \/ i = 2
                /\ kiss_unescape(SubSeq(out, 3, Len(out) - 1)) = Original(k)
    /\ \A d \in {AX_ADDR_ONLY, AX_UI, AX_SHORT, <<>>} :
          \A flips \in FlipChoices(Len(d)) \cup {[i \in 1..Len(d) |-> 255]} :
             apply_bit_errors(d, 0, flips) = d

\* A frame whose data needed escaping is being written at rate 0.
C5_Witness ==
    \E k \in 1..Len(tx) :
        /\ ber = 0
        /\ tx[k].pc = "drain"
        /\ Len(tx[k].kiss_out) > Len(Original(k)) + 3

\* C6: when a write or drain fails, no station counter changes and the task
\* writes to the next recipient of its snapshot, or returns if the failed
\* one was the last; rx_count changes only in the count that follows a
\* drain that returned, and only for the station just written to.
C6_FailureSkipped ==
    /\ [][\A k \in 1..Len(tx) :
             (DrainEnds(k) /\ ~Stays(k, [tx[k] EXCEPT !.pc = "rx"]))
             => st' = st /\ Continues(k)]_vars
    /\ [][\A o \in 1..Len(st) :
             st'[o].rx_count # st[o].rx_count
             => \E k \in 1..Len(tx) : Counts(k) /\ tx[k].recipients[tx[k].idx] = o]_vars

\* The write to the first recipient failed and the second is being written.
C6_Witness ==
    \E k \in 1..Len(tx) :
        /\ tx[k].pc = "drain"
        /\ tx[k].idx = 2
        /\ frame_counter = 1
        /\ st[tx[k].recipients[1]].rx_count = 0

\* The read loop of handler c has ended.
Ended(c) == conn[c].exit \in {"eof", "cancelled", "error"}

\* Handler c has finished, its connection is closed and its station is in
\* no registry.
Cleaned(c) ==
    /\ conn[c].pc = "done"
    /\ \A x \in Registered : st[x].id # st[conn[c].station].id

\* C7: a handler whose read loop has ended, by end of stream, cancellation
\* or error, goes on to unregister its station and close its connection;
\* and the station of a handler that has finished is in no registry.
C7_HandlerCleansUp ==
    /\ (\E c \in 1..Len(conn) : Ended(c) /\ ~Cleaned(c))
          ~> (\A c \in 1..Len(conn) : Ended(c) => Cleaned(c))
    /\ [](\A c \in 1..Len(conn) : conn[c].pc = "done" => Cleaned(c))

\* A handler has finished after a read error while another station stays.
C7_Witness ==
    \E c \in 1..Len(conn) :
        /\ conn[c].pc = "done"
        /\ conn[c].exit = "error"
        /\ Registered # {}

\* C8: the transmit tasks of a sender whose handler has finished all come
\* to their end; such a task ends only by dropping a short frame or when
\* its recipient list is exhausted, and its fan-out goes to every station
\* registered when it takes its snapshot.
C8_RelayedAfterClose ==
    /\ (\E k \in 1..Len(tx) : Gone(tx[k].from))
          ~> ~(\E k \in 1..Len(tx) : Gone(tx[k].from))
    /\ [][\A k \in 1..Len(tx) : Gone(tx[k].from) => FanOut(k)]_vars
    /\ [][\A k \in 1..Len(tx) :
             (Gone(tx[k].from) /\ Returned(k))
             => \/ tx[k].pc = "start" /\ Len(Original(k)) < 14
                \/ tx[k].pc = "snap" /\ Registered = {}
                \/ tx[k].pc \in {"drain", "rx"} /\ tx[k].idx = Len(tx[k].recipients)]_vars

\* A frame is being written to a recipient after its sender's handler finished.
C8_Witness ==
    \E k \in 1..Len(tx) : Gone(tx[k].from) /\ tx[k].pc = "drain"

\* C9: a task that is suspended, in the propagation delay, in a drain, in
\* a read or in front of the lock, does not hold the lock, and no task holds
\* it while the loop is between tasks; the task about to build the
\* recipient list holds it, and the station a task writes to is an element
\* of the list it built.
C9_NoLockWhileSuspended ==
    /\ \A k \in 1..Len(tx) :
          /\ tx[k].pc \in {"start", "sleep", "drain", "blocked"} => T(k) \notin lock
          /\ tx[k].pc = "snap" => lock = {T(k)}
          /\ tx[k].pc = "drain" => tx[k].idx \in 1..Len(tx[k].recipients)
    /\ \A c \in 1..Len(conn) :
          conn[c].pc \in {"read", "done", "blocked"} => H(c) \notin lock
    /\ running = Idle => lock = {}

\* One task is in its delay and another in a drain.
C9_Witness ==
    \E k, j \in 1..Len(tx) : tx[k].pc = "sleep" /\ tx[j].pc = "drain"

\* C10: a step that changes a registry, a channel field or a station
\* counter, and a step that reads them, is taken by the task that holds the
\* lock; the lock has at most one holder.
C10_UnderLock ==
    /\ [][<<stations, chan, st>>' # <<stations, chan, st>>
             => running # Idle /\ lock = {running}]_vars
    /\ [][\A k \in 1..Len(tx) :
             (running = T(k) /\ tx[k].pc \in {"coll", "dupe", "snap", "rx"})
             => lock = {T(k)}]_vars
    /\ [][\A c \in 1..Len(conn) :
             (running = H(c) /\ conn[c].pc \in {"add", "rm"}) => lock = {H(c)}]_vars
    /\ [](Cardinality(lock) <= 1)

\* A task holds the lock and is about to count a delivery.
C10_Witness ==
    \E k \in 1..Len(tx) : tx[k].pc = "rx" /\ lock = {T(k)}

\* C11: for every byte string p, unescaping the escaped form of p gives p
\* back, and the escaped form holds no FEND; for the simulator's pair of
\* functions and for the scripts' pair.
C11_RoundTrip ==
    /\ phase \in {"escaped", "unescaped"} =>
          /\ \A i \in 1..Len(res.escaped) : res.escaped[i] # 192
          /\ \A i \in 1..Len(res.vt_escaped) : res.vt_escaped[i] # 192
    /\ phase = "unescaped" =>
          /\ res.unescaped = arg.data
          /\ res.vt_unescaped = arg.data

\* A string with a FEND and a FESC in it has made the round trip.
C11_Witness ==
    /\ phase = "unescaped"
    /\ \E i, j \in 1..Len(arg.data) : arg.data[i] = 192 /\ arg.data[j] = 219

\* The last byte of data is a FESC that starts an escape (it is not itself
\* the byte that follows an earlier FESC).
RECURSIVE EscapeOpenFrom(_, _)
EscapeOpenFrom(data, i) ==
    IF i > Len(data) THEN FALSE
    ELSE IF data[i] = 219
         THEN IF i = Len(data) THEN TRUE ELSE EscapeOpenFrom(data, i + 2)
         ELSE EscapeOpenFrom(data, i + 1)

Front(data) == SubSeq(data, 1, Len(data) - 1)

\* C15: kiss_unescape emits no byte for a FESC that is the last byte of the
\* input (the output is that of the input without it), and a FESC followed by
\* a byte that is neither substitute passes that byte through; in the
\* simulator and in the scripts.
C15_TrailingEscapeAbsorbed ==
    phase = "received" =>
        /\ EscapeOpenFrom(arg.data, 1) =>
              /\ res.unescaped = kiss_unescape(Front(arg.data))
              /\ res.vt_unescaped = vt_kiss_unescape(Front(arg.data))
        /\ \A x \in Bytes \ {220, 221} :
              arg.data = <<219, x>> =>
                  res.unescaped = <<x>> /\ res.vt_unescaped = <<x>>

\* The non-empty runs of bytes between two successive FENDs of s, in order,
\* from position i on, i being a FEND.
RECURSIVE RunsFrom(_, _)
RunsFrom(s, i) ==
    LET later == {j \in (i + 1)..Len(s) : s[j] = 192}
    IN IF later = {} THEN <<>>
       ELSE LET j == CHOOSE m \in later : \A o \in later : m <= o
            IN (IF j > i + 1 THEN <<SubSeq(s, i + 1, j - 1)>> ELSE <<>>)
               \o RunsFrom(s, j)

Runs(s) ==
    LET ds == {j \in 1..Len(s) : s[j] = 192}
    IN IF ds = {} THEN <<>>
       ELSE RunsFrom(s, CHOOSE m \in ds : \A o \in ds : m <= o)

Fed == SubSeq(res.stream, 1, res.pos)

Wrapped(rs) == [i \in 1..Len(rs) |-> <<192>> \o rs[i] \o <<192>>]

\* C12 as stated: each framer (the simulator's, the relay's, which hands the
\* run on between two FENDs, and KISSDecoder.feed) has emitted exactly the
\* non-empty runs between successive delimiters of what it was fed, in order.
C12_FramesAreRuns ==
    phase = "feeding" =>
        /\ res.frames = Runs(Fed)
        /\ res.relayed = Wrapped(Runs(Fed))
        /\ res.kd_frames = Runs(Fed)

\* C12 amended: the simulator's and the relay's framers emit exactly the
\* non-empty runs; KISSDecoder.feed does when no run holds a FESC.
C12_FramesAreRunsNoEscape ==
    phase = "feeding" =>
        /\ res.frames = Runs(Fed)
        /\ res.relayed = Wrapped(Runs(Fed))
        /\ (\A i \in 1..Len(Runs(Fed)) : \A j \in 1..Len(Runs(Fed)[i]) :
               Runs(Fed)[i][j] # 219)
           => res.kd_frames = Runs(Fed)

\* A stream with bytes before its first delimiter, one run and an unclosed
\* tail has been fed.
C12_Witness ==
    /\ phase = "feeding"
    /\ res.pos = Len(res.stream)
    /\ res.stream = <<65, 192, 220, 192>> \/ res.stream = <<192, 192, 65, 192>>
       \/ res.stream = <<192, 220, 192, 65>>
    /\ Len(res.frames) = 1
    /\ Len(res.kd_frames) = 1

\* C13: the frames a framer has emitted after any sequence of reads are those
\* one call on all the bytes read so far emits, and it is left in the same
\* state; for the simulator's framer and for KISSDecoder.feed.
C13_ChunkingIndependent ==
    phase = "feeding" =>
        /\ LET w == ParseChunk(Fed, <<>>, FALSE)
           IN /\ res.frames = w.frames
              /\ res.buffer = w.buffer
              /\ res.in_frame = w.in_frame
        /\ LET w == feed(Fed, <<>>, FALSE)
           IN /\ res.kd_frames = w.frames
              /\ res.kd_buffer = w.buffer
              /\ res.kd_in_frame = w.in_frame

\* A frame has been completed although reads ended inside it and between a
\* FESC and its substitute.
C13_Witness ==
    /\ phase = "feeding"
    /\ res.cut_frame
    /\ res.cut_escape
    /\ res.pos = Len(res.stream)
    /\ Len(res.frames) = 1
    /\ Len(res.kd_frames) = 1

\* C14: feeding KISSDecoder the frame build_kiss_frame makes of p (FEND, the
\* command byte c, p escaped, FEND) yields exactly one frame, c followed by p.
C14_FeedReversesEscaping ==
    (phase = "feeding" /\ res.built /\ res.pos = Len(res.stream)) =>
        res.kd_frames = << <<res.stream[2]>> \o arg.data >>

\* The frame transmit decodes for its log lines (314) once task k is past
\* the length tests.
FrameOf(k) == decode_ax25_frame(tx[k].ax25_data)

\* Task k was given a raw frame of fewer than 3 bytes, or one whose
\* unescaped data has fewer than 14 bytes.
Short(k) == Len(tx[k].kiss_frame) < 3 \/ Len(Original(k)) < 14

\* C17: a transmit task given a raw frame of fewer than 3 bytes or unescaped
\* data of fewer than 14 bytes never gets past its first step (it takes no
\* lock, writes nothing), and the step in which it returns leaves the
\* channel state, the registries and every station's counters as they were.
C17_ShortFrameDropped ==
    /\ [](\A k \in 1..Len(tx) : Short(k) => tx[k].pc = "start" /\ running # T(k))
    /\ [][\A k \in 1..Len(tx) :
             (Short(k) /\ Returned(k))
             => UNCHANGED <<stations, chan, st, lock, running, last_heard, conn>>]_vars

\* A station's only frame was too short and its task has returned.
C17_Witness ==
    /\ tx = <<>>
    /\ frame_counter = 0
    /\ recent_frames = <<>>
    /\ \E c \in 1..Len(conn) :
          conn[c].pc = "read" /\ conn[c].in_frame /\ st[conn[c].station].tx_count = 0

\* C16 as stated: a frame of at least 3 raw bytes whose AX.25 data is too
\* short to hold the two addresses and a control byte (fewer than 15 bytes)
\* is not dropped, and its fan-out is that of any other frame.
C16_UndecodableRelayed ==
    /\ [][\A k \in 1..Len(tx) :
             (tx[k].pc = "start" /\ Len(tx[k].kiss_frame) >= 3
                /\ Len(Original(k)) < 15)
             => ~Returned(k)]_vars
    /\ [][\A k \in 1..Len(tx) :
             (tx[k].pc # "start" /\ FrameOf(k).frame_type = "?") => FanOut(k)]_vars

\* C16 amended: a frame with at least 14 bytes of AX.25 data whose header
\* cannot be classified (the decoder finds no control byte) is not dropped,
\* and its fan-out is that of any other frame.
C16_UnclassifiedRelayed ==
    /\ [][\A k \in 1..Len(tx) :
             (tx[k].pc = "start" /\ Len(tx[k].kiss_frame) >= 3
                /\ Len(Original(k)) >= 14
                /\ decode_ax25_frame(Original(k)).frame_type = "?")
             => ~Returned(k)]_vars
    /\ [][\A k \in 1..Len(tx) :
             (tx[k].pc # "start" /\ FrameOf(k).frame_type = "?") => FanOut(k)]_vars

\* A frame of two addresses and nothing else is being written to a recipient.
C16_Witness ==
    \E k \in 1..Len(tx) :
        /\ tx[k].pc = "drain"
        /\ FrameOf(k).frame_type = "?"
        /\ Len(tx[k].ax25_data) = 14

\* C18: for a callsign of at most 6 upper-case letters, an SSID in 0..15
\* and either value of the last flag, the field encode_ax25_address makes
\* has 7 bytes and both decoders return the callsign, the SSID and the flag.
C18_AddressRoundTrip ==
    (phase = "address" /\ \A i \in 1..Len(arg.callsign) : arg.callsign[i] \in 65..90) =>
        /\ Len(res.field) = 7
        /\ res.decoded = [callsign |-> arg.callsign, ssid |-> arg.ssid,
                          is_last |-> arg.is_last]
        /\ res.vt_decoded = [address |-> [callsign |-> arg.callsign, ssid |-> arg.ssid],
                             is_last |-> arg.is_last, offset |-> 7]

\* A callsign of six letters with SSID 15 and the last flag set has made the
\* round trip.
C18_Witness ==
    /\ phase = "address"
    /\ arg.callsign = <<65, 66, 67, 68, 69, 70>>
    /\ arg.ssid = 15
    /\ arg.is_last
    /\ res.decoded.ssid = 15

\* The class the claim gives a control byte.
ClassOf(c) ==
    IF c % 2 = 0 THEN "Information"
    ELSE IF (c \div 2) % 2 = 0 THEN "Supervisory" ELSE "Unnumbered"

\* C19 for the simulator: the control byte alone gives the class, I for
\* bit 0 = 0, S for bits 01, U for bits 11; N(S) is set only for I frames
\* and N(R) only for I and S frames.
SimulatorClassifies ==
    LET c == arg.control
        f == res.frame
    IN /\ ClassOf(c) = "Information" <=> f.frame_type = "I"
       /\ ClassOf(c) = "Supervisory" <=> f.frame_type = "S"
       /\ ClassOf(c) = "Unnumbered" <=> f.frame_type = "U"
       /\ f.ns = (IF ClassOf(c) = "Information" THEN (c \div 2) % 8 ELSE 0)
       /\ f.nr = (IF ClassOf(c) = "Unnumbered" THEN 0 ELSE (c \div 32) % 8)

\* C19 for the monitor: the type decode_frame_type returns is one of the
\* class of the control byte, the frame is counted in that class, and N(S) is
\* returned only for I frames and N(R) only for I and S frames.
MonitorClassifies ==
    LET c == arg.control
        k == res.km
    IN /\ ClassOf(c) = "Information" <=> k.frame_type = "I"
       /\ ClassOf(c) = "Information" <=> res.counted = "i_frames"
       /\ ClassOf(c) = "Supervisory" <=> res.counted = "s_frames"
       /\ ClassOf(c) = "Unnumbered" <=> res.counted = "u_frames"
       /\ k.ns # -1 <=> ClassOf(c) = "Information"
       /\ k.nr # -1 <=> ClassOf(c) # "Unnumbered"

\* C19: every one of the 256 control bytes is classified as exactly one of
\* Information, Supervisory and Unnumbered, by the simulator and by the
\* monitor, with sequence numbers extracted only for their classes.
C19_ClassificationTotal ==
    phase = "classified" => SimulatorClassifies /\ MonitorClassifies

\* C20: the ids of all stations ever registered, on whatever port and
\* whether still connected or not, are strictly increasing in registration
\* order (so no two share an id and none is reused after a disconnect), and
\* station_counter is the number of registrations made.
C20_IdsIncrease ==
    /\ \A i, j \in 1..Len(st) : i < j => st[i].id < st[j].id
    /\ \A i \in 1..Len(st) : st[i].id \in 1..station_counter
    /\ station_counter = Len(st)

\* A station has disconnected and a station with a later id is registered on
\* the other port.
C20_Witness ==
    \E o, x \in 1..Len(st) :
        /\ Gone(o)
        /\ x \in Registered
        /\ st[x].port # st[o].port
        /\ st[x].id > st[o].id

\* The number of bytes the addresses of d take, d holding at least the
\* destination and the source: up to the first address from the source on
\* whose last bit is set, or after which fewer than 7 bytes are left.
RECURSIVE AddressesEnd(_, _)
AddressesEnd(d, o) ==
    IF d[o] % 2 = 1 \/ o + 7 > Len(d) THEN o ELSE AddressesEnd(d, o + 7)

\* C29: for every byte sequence the decoders return a result: for fewer than
\* 14 bytes the simulator's decoder returns the frame with no address, class
\* Unknown and nothing else set, and the monitor's returns None; when the
\* addresses are there and no byte follows them the simulator's returns the
\* addresses with class Unknown and the monitor's None; otherwise the frame
\* is classified.
C29_DecoderTotal ==
    phase = "frame" =>
        LET d == arg.data
            f == res.frame
        IN /\ f.raw = d
           /\ Len(d) < 14 =>
                 /\ f.dest = <<>> /\ f.source = <<>> /\ f.via = <<>>
                 /\ f.frame_type = "?" /\ f.control = 0 /\ f.pid = 0 /\ f.info = <<>>
                 /\ res.km.frame_type = "None"
           /\ (Len(d) >= 14 /\ AddressesEnd(d, 14) = Len(d)) =>
                 /\ f.dest.callsign = <<67, 81>> /\ f.source.callsign = <<65, 66, 67>>
                 /\ f.frame_type = "?" /\ f.control = 0 /\ f.pid = 0 /\ f.info = <<>>
                 /\ res.km.frame_type = "None"
           /\ (Len(d) >= 14 /\ AddressesEnd(d, 14) < Len(d)) =>
                 /\ f.frame_type \in {"I", "S", "U"}
                 /\ res.km.frame_type = "None" <=> res.cmd # 0

\* A frame of the two addresses and nothing else has been decoded.
C29_Witness ==
    /\ phase = "frame"
    /\ Len(arg.data) = 14
    /\ res.frame.frame_type = "?"
    /\ res.frame.source.ssid = 2

\* C30: the byte after the control byte is taken as protocol id only when
\* the control byte is that of an I frame (bit 0 clear) or of a UI frame
\* (0x03 or 0x13); then the bytes after it are the payload, and for every
\* other control byte all bytes after the control byte are; in the
\* simulator's decoder and in the monitor's.
C30_PidOnlyForIAndUI ==
    (phase = "frame" /\ Len(arg.data) >= 14 /\ AddressesEnd(arg.data, 14) < Len(arg.data)) =>
        LET d == arg.data
            e == AddressesEnd(d, 14)
            control == d[e + 1]
            rest == SubSeq(d, e + 2, Len(d))
            takes == (control % 2 = 0 \/ control \in {3, 19}) /\ rest # <<>>
        IN /\ res.frame.control = control
           /\ res.frame.pid = (IF takes THEN rest[1] ELSE 0)
           /\ res.frame.info = (IF takes THEN Tail(rest) ELSE rest)
           /\ res.cmd = 0 =>
                 /\ res.km.control = control
                 /\ res.km.pid = (IF takes THEN rest[1] ELSE -1)
                 /\ res.km.payload = (IF takes THEN Tail(rest) ELSE rest)

\* A UI frame with the P/F bit set, a protocol id and one byte of payload has
\* been decoded.
C30_Witness ==
    /\ phase = "frame"
    /\ res.cmd = 0
    /\ res.frame.control = 19
    /\ res.frame.pid = 240
    /\ res.km.pid = 240
    /\ res.km.payload = <<65>>

\* ---------------------------------------------------------------------- C22
\* The task that holds the lock for the collision check, if any.
Accepting == {k \in 1..Len(tx) : tx[k].pc = "coll"}

\* C22: every accepted transmit sets the busy flag and moves busy_until to
\* its own start time plus the on-air time of its AX.25 data (8 bits a byte
\* at 1200 bit/s, plus 100 ms), counted as a collision or not; the very
\* first transmit, and one that starts at or after busy_until, leave
\* collision_count alone.
C22_BusyWindow ==
    [][frame_counter' # frame_counter =>
          \E k \in Accepting :
              LET t == tx[k].current_time
                  bits == 8 * Len(tx[k].ax25_data)
              IN /\ channel_busy'
                 /\ channel_busy_until' = t + (bits * Ms(1000)) \div 1200 + Ms(100)
                 /\ (frame_counter = 0 \/ t >= channel_busy_until)
                        => collision_count' = collision_count]_vars

\* Two transmits accepted, the second after the first one's window ended,
\* and no collision counted.
C22_Witness ==
    /\ frame_counter = 2
    /\ collision_count = 0
    /\ channel_busy_until >= Ms(200) + frame_duration(AX_ADDR_ONLY)

\* ---------------------------------------------------------------------- C23
\* C23: an accepted transmit whose start time lies inside the on-air window
\* of any earlier accepted transmit increments collision_count, also when a
\* shorter frame was accepted in between.  (Start times never decrease, so
\* the start lies inside some earlier window exactly when it is before the
\* latest end of all of them.)
C23_EveryOverlapCounted ==
    [][frame_counter' # frame_counter =>
          \A k \in Accepting :
              (frame_counter > 0 /\ tx[k].current_time < air_until)
                  => collision_count' = collision_count + 1]_vars

\* ---------------------------------------------------------------------- C24
\* The task that holds the lock for the update of the digest table, if any.
Updating == {k \in 1..Len(tx) : tx[k].pc = "dupe"}

\* C24: the update of the digest table for a frame accepted at time T leaves
\* the frame's digest mapped to T and no entry more than five seconds older
\* than T; and an entry only ever leaves the table in such an update, being
\* more than five seconds older than the frame.
C24_DigestTable ==
    [][/\ \A k \in Updating :
             LET T0 == tx[k].current_time
                 h == frame_hash(tx[k].ax25_data)
             IN /\ h \in DOMAIN recent_frames'
                /\ recent_frames'[h] = T0
                /\ \A x \in DOMAIN recent_frames' : T0 - recent_frames'[x] <= Ms(5000)
       /\ \A x \in DOMAIN recent_frames \ DOMAIN recent_frames' :
             \E k \in Updating : tx[k].current_time - recent_frames[x] > Ms(5000)]_vars

\* A digest that was entered has been purged by a later frame's update.
C24_Witness ==
    /\ Updating = {}
    /\ frame_counter = 2
    /\ \E d \in DOMAIN last_heard : frame_hash(d) \notin DOMAIN recent_frames

\* ---------------------------------------------------------------------- C25
\* The tasks whose drain to station o has returned and whose count of it,
\* the next statement, has not run yet.
Counting(o) == {k \in 1..Len(tx) : tx[k].pc = "rx" /\ tx[k].recipients[tx[k].idx] = o}

\* C25: a station's rx_count is the number of frames whose write and drain
\* to its connection completed without error (less the completion being
\* counted at this instant, if any); every one of them was written to that
\* station, and rx_count never moves by more than one at a time.
C25_RxCountIsDeliveries ==
    /\ [](\A o \in 1..Len(st) :
             /\ st[o].rx_count + Cardinality(Counting(o)) = delivered[o]
             /\ delivered[o] <= Len(wire[o]))
    /\ [][\A o \in 1..Len(st) :
             st'[o].rx_count \in {st[o].rx_count, st[o].rx_count + 1}]_vars

\* Station A has sent one frame with B the only other station: B counts one
\* frame received, A none.
C25_Witness ==
    /\ Len(st) = 2
    /\ Registered = {1, 2}
    /\ frame_counter = 1
    /\ tx = <<>>
    /\ \E a, b \in 1..2 :
          /\ st[a].tx_count = 1 /\ st[a].rx_count = 0 /\ wire[a] = <<>>
          /\ st[b].tx_count = 0 /\ st[b].rx_count = 1 /\ wire[b] = <<1>>

\* ---------------------------------------------------------------------- C26
\* The frame ids of the tasks at program point pc in the task list t.
FramesAt(t, pc) == {t[k].frame_id : k \in {i \in 1..Len(t) : t[i].pc = pc}}

\* The last element of a non-empty sequence.
Last(s) == s[Len(s)]

\* C26: when a frame is written to a recipient, the transmit has updated
\* busy_until, frame_counter, the sender's tx_count and the digest table
\* for it, and the propagation delay that began after those updates has
\* elapsed; a task sleeps once, after the updates, so that all recipients
\* of a frame share one delay.
C26_WrittenAfterDelay ==
    /\ [][\A o \in 1..Len(wire) :
             wire'[o] # wire[o] =>
                 LET f == Last(wire'[o])
                 IN /\ wire'[o] = Append(wire[o], f)
                    /\ f \in 1..frame_counter
                    /\ channel_busy
                    /\ f \in 1..Len(aired)
                    /\ now' >= aired[f] + Ms(10)
                    /\ \E k \in 1..Len(tx) :
                          /\ tx[k].frame_id = f
                          /\ st[tx[k].from].tx_count >= 1
                          /\ st[tx[k].from].tx_count <= frame_counter
                          /\ tx[k].ax25_data \in DOMAIN last_heard]_vars
    /\ [][FramesAt(tx', "sleep") \subseteq FramesAt(tx, "sleep") \cup FramesAt(tx, "dupe")]_vars

\* One frame has been written to two recipients at the instant its delay
\* ended.
C26_Witness ==
    /\ frame_counter = 1
    /\ Len(aired) = 1
    /\ now = aired[1] + Ms(10)
    /\ \E a, b \in 1..Len(wire) : a # b /\ wire[a] = <<1>> /\ wire[b] = <<1>>

\* ---------------------------------------------------------------------- C27
\* The transmit task that is next to run for the first time, if any.
NextToStart == {j \in 1..Len(tx) : tx[j].pc = "start" /\ \A i \in 1..(j - 1) : tx[i].pc # "start"}

\* C27: while a transmit task is in its propagation delay it does not hold
\* the lock, and between two runs of the loop the lock is free, every
\* connection that is reading (the sender's too) can be read and parsed, and
\* the next new transmit task can run; a transmit accepted meanwhile updates
\* the channel state under the lock and leaves the sleeping tasks asleep.
C27_DelayDoesNotBlock ==
    /\ [](\A k \in Sleeping :
             /\ T(k) \notin lock
             /\ running = Idle =>
                  /\ lock = {}
                  /\ \A c \in 1..Len(conn) :
                        (conn[c].pc = "read" /\ inputs < MaxInputs)
                            => ENABLED HRead(c, WIRE_PAIR)
                  /\ \A j \in NextToStart : ENABLED TStart(j))
    /\ [][(Sleeping # {} /\ frame_counter' # frame_counter) =>
             /\ lock = {running}
             /\ channel_busy_until' = now + frame_duration(tx[running[2]].ax25_data)
             /\ Len(tx') = Len(tx)
             /\ \A k \in Sleeping : tx'[k] = tx[k]]_vars

\* Frame 1 is still in its delay; meanwhile a second frame of the same
\* connection and a frame of another station have been accepted, both
\* counted as collisions.
C27_Witness ==
    /\ frame_counter = 3
    /\ collision_count = 2
    /\ \E k, i, j \in Sleeping :
          /\ tx[k].frame_id = 1
          /\ tx[i].frame_id = 2 /\ tx[i].from = tx[k].from
          /\ tx[j].frame_id = 3 /\ tx[j].from # tx[k].from

\* ---------------------------------------------------------------------- C28
\* Task k issues a write to station o in this step: the first write of its
\* fan-out as it builds the recipient list, or the next one of the loop.
Writes(k, o) ==
    /\ Len(tx') = Len(tx)
    /\ tx'[k].pc = "drain"
    /\ tx'[k].recipients[tx'[k].idx] = o
    /\ \/ tx[k].pc = "snap" /\ tx'[k].idx = 1
       \/ tx[k].pc \in {"drain", "rx"} /\ tx'[k].idx = tx[k].idx + 1

\* C28: what a recipient receives grows only at its end, by the frame of the
\* task that issues a write to it in that step, so the order of receipt is
\* the order of the writes; tasks reach the fan-out in the order of their
\* frames, so a frame written as the first of its fan-out follows only
\* older frames, and only a task that is kept waiting within its fan-out
\* can be overtaken.
C28_OrderOfWrites ==
    [][\A o \in 1..Len(wire) :
          wire'[o] # wire[o] =>
              \E k \in 1..Len(tx) :
                  /\ Writes(k, o)
                  /\ wire'[o] = Append(wire[o], tx[k].frame_id)
                  /\ tx[k].pc = "snap" =>
                        \A i \in 1..Len(wire[o]) : wire[o][i] < tx[k].frame_id]_vars

\* Two frames parsed in order from one connection: a recipient was written
\* the second before the first.
C28_Witness ==
    /\ frame_counter = 2
    /\ \E a \in 1..Len(st) : st[a].tx_count = 2
    /\ \E o \in 1..Len(wire) : wire[o] = <<2, 1>>

\* ---------------------------------------------------------------------- C21
\* How many times frame f was written to Client object x.
Copies(x, f) ==
    Cardinality({i \in 1..Len(relay.out[x]) : relay.out[x][i].id = f})

\* C21: the relay writes a frame, which is a delimiter, the bytes its
\* sender's connection sent between two delimiters, unchanged, and a
\* delimiter, once to each client that was registered on the other port when
\* the task listed its recipients after the delay, and to no other client:
\* not to the sender, nor to any client of the sender's port.
C21_RelayToPeerPort ==
    \A f \in 1..Len(relay.snaps) :
        LET s == relay.snaps[f]
            from == relay.conn[s.conn]
            other == CHOOSE q \in {8001, 8002} : q # from.port
            busy == {k \in 1..Len(relay.tasks) : relay.tasks[k].frame_id = f}
            written == {x \in 1..Len(relay.cl) : Copies(x, f) > 0}
        IN /\ \A x \in written :
                 /\ Copies(x, f) = 1
                 /\ x # from.client
                 /\ relay.cl[x].port # from.port
                 /\ x \in s.clients[other]
                 /\ \A i \in 1..Len(relay.out[x]) :
                       relay.out[x][i].id = f =>
                           relay.out[x][i].bytes \in Range(Wrapped(Runs(from.heard)))
           /\ busy = {} => written = s.clients[other]
           /\ \A k \in busy :
                 written = {relay.tasks[k].recipients[i] : i \in 1..relay.tasks[k].idx}

\* A client of port 8001 has sent a frame that holds an escape pair; the
\* only client of port 8002 was written it as it was sent, the sender and
\* the other client of port 8001 nothing.
C21_Witness ==
    /\ Len(relay.snaps) = 1
    /\ relay.tasks = <<>>
    /\ \E a, a2, b \in 1..Len(relay.cl) :
          /\ a # a2
          /\ relay.clients = [p \in {8001, 8002} |-> IF p = 8001 THEN {a, a2} ELSE {b}]
          /\ relay.conn[relay.snaps[1].conn].client = a
          /\ relay.out[a] = <<>>
          /\ relay.out[a2] = <<>>
          /\ relay.out[b] = <<[id |-> 1, bytes |-> <<192, 0, 219, 220, 192>>]>>

\* ---------------------------------------------------------------------- C33
\* The sum of tx_count over the first n Station objects ever made.
RECURSIVE TxCountSum(_)
TxCountSum(n) == IF n = 0 THEN 0 ELSE st[n].tx_count + TxCountSum(n - 1)

\* The frame ids the transmit tasks hold.
Numbered == {k \in 1..Len(tx) : tx[k].frame_id # 0}

\* C33: frame_counter is the number of transmits accepted so far (those
\* whose delay has begun and the one between its two locked blocks, if any)
\* and the sum of tx_count over every station ever registered, connected or
\* not; an accepted transmit gets the next number, so no two frames share an
\* id.
C33_FrameCounterCounts ==
    /\ [](/\ frame_counter = Len(aired) + Cardinality(Updating)
          /\ frame_counter = TxCountSum(Len(st))
          /\ \A k \in Numbered : tx[k].frame_id \in 1..frame_counter
          /\ \A k, j \in Numbered : k # j => tx[k].frame_id # tx[j].frame_id)
    /\ [][\A k \in Accepting :
             frame_counter' # frame_counter =>
                 /\ tx'[k].frame_id = frame_counter + 1
                 /\ frame_counter' = frame_counter + 1
                 /\ \A o \in 1..Len(wire) : \A i \in 1..Len(wire[o]) :
                       wire[o][i] <= frame_counter]_vars

\* Two frames were accepted from a station that has disconnected since;
\* another station is registered and has sent nothing.
C33_Witness ==
    /\ frame_counter = 2
    /\ Len(aired) = 2
    /\ \E a, b \in 1..Len(st) :
          /\ Gone(a)
          /\ st[a].tx_count = 2
          /\ b \in Registered
          /\ st[b].tx_count = 0

\* ---------------------------------------------------------------------- C34
\* The connections whose handler has Station object o: add_station has
\* returned it, and remove_station has not discarded it yet.
Holders(o) ==
    {c \in 1..Len(conn) : conn[c].station = o /\ conn[c].pc \in {"read", "rm", "blocked"}}

\* C34: a registered station is in one registry only, that of its own port
\* field; the registries hold exactly the stations whose add_station has
\* completed and whose remove_station has not; and a removal takes the one
\* station out and leaves every registry otherwise as it was.
C34_RegistryExact ==
    /\ [](/\ \A p \in Range(STATION_PORTS) : \A o \in stations[p] : st[o].port = p
          /\ \A o \in 1..Len(st) : o \in Registered <=> Holders(o) # {}
          /\ \A o \in 1..Len(st) : Cardinality(Holders(o)) <= 1)
    /\ [][\A c \in 1..Len(conn) :
             (running = H(c) /\ conn[c].pc = "rm") =>
                 \A p \in Range(STATION_PORTS) :
                     stations'[p] = stations[p] \ {conn[c].station}]_vars

\* Of two stations registered on one port, one has been removed and the
\* other is still registered there.
C34_Witness ==
    \E a, b \in 1..Len(st) :
        /\ Gone(a)
        /\ a \notin Registered
        /\ st[a].port = st[b].port
        /\ b \in stations[st[b].port]

\* ---------------------------------------------------------------------- C36
\* C36: collision_count never decreases and rises by at most one, and only
\* on a step that accepts a transmit; it is at most frame_counter - 1, and 0
\* while nothing was accepted; channel_busy is false until the first
\* transmit is accepted and true ever after.
C36_CollisionBound ==
    /\ [](/\ collision_count >= 0
          /\ collision_count <= (IF frame_counter = 0 THEN 0 ELSE frame_counter - 1)
          /\ channel_busy <=> frame_counter > 0)
    /\ [][/\ collision_count' \in {collision_count, collision_count + 1}
          /\ collision_count' # collision_count => frame_counter' = frame_counter + 1
          /\ channel_busy => channel_busy']_vars

\* Every accepted transmit but the first was counted as a collision.
C36_Witness ==
    /\ frame_counter = 3
    /\ collision_count = 2
    /\ channel_busy

WrittenTo(f) == {o \in 1..Len(wire) : \E i \in 1..Len(wire[o]) : wire[o][i] = f}

\* The transmit task of frame f has returned.
Over(f) == \A k \in 1..Len(tx) : tx[k].frame_id # f

\* C37: a frame is written to nobody before its task has built the
\* recipient list after the delay, and then only to stations that were
\* registered at that moment, other than the sender; when the task has
\* returned, all of them were written, whether or not they were registered
\* when the frame was accepted, and nobody else.
C37_SnapshotAfterDelay ==
    \A f \in 1..Len(rolls) :
        LET r == rolls[f]
            others == {x \in r.snapped : st[x].id # st[r.from].id}
        IN /\ ~r.fixed => WrittenTo(f) = {}
           /\ r.fixed => WrittenTo(f) \subseteq others
           /\ (r.fixed /\ Over(f)) => WrittenTo(f) = others

\* A station that registered during the delay of frame 1 was written it.
C37_Witness ==
    /\ Len(rolls) = 1
    /\ Over(1)
    /\ \E x \in 1..Len(st) : x \notin rolls[1].accepted /\ wire[x] = <<1>>

\* A station that was registered when frame 1 was accepted and was
\* unregistered during the delay was not written it.
UnregisteredInDelay ==
    /\ Len(rolls) = 1
    /\ rolls[1].fixed
    /\ Over(1)
    /\ \E y \in rolls[1].accepted : y # rolls[1].from /\ wire[y] = <<>>

\* ---------------------------------------------------------------------- C38
\* In this step something is written to Station object o, or its rx_count
\* changes.
Touched(o) == wire'[o] # wire[o] \/ st'[o].rx_count # st[o].rx_count

\* C38 as stated: once a station is unregistered nothing is written to its
\* connection and its rx_count does not change.
C38_NothingAfterUnregister ==
    [][\A o \in 1..Len(st) : o \notin Registered => ~Touched(o)]_vars

\* C38, amended: a write to an unregistered station, or a change of its
\* rx_count, is only ever made by a task that built its recipient list
\* while the station was still registered and is going through that list;
\* a task that builds its list after the removal never touches the station.
C38_OnlyFromEarlierSnapshot ==
    [][\A o \in 1..Len(st) :
          (o \notin Registered /\ Touched(o)) =>
              \E k \in 1..Len(tx) :
                  /\ tx[k].pc \in {"drain", "rx"}
                  /\ \E i \in 1..Len(tx[k].recipients) : tx[k].recipients[i] = o
                  /\ rolls[tx[k].frame_id].fixed
                  /\ o \in rolls[tx[k].frame_id].snapped]_vars

\* A drain to a station has returned after the station was unregistered:
\* its rx_count is about to be incremented.
C38_Witness ==
    \E k \in 1..Len(tx) :
        /\ tx[k].pc = "rx"
        /\ running = T(k)
        /\ Receiver(k) \notin Registered
        /\ Gone(Receiver(k))

\* ------------------------------------------------------------------- C39
\* C39: the lock has at most one holder, the task that is running, so every
\* task that takes it gives it back before it suspends or returns; it is
\* taken only when it is free, so no task is ever left waiting in front of
\* it; and with a loop that runs every ready task and drains that return or
\* raise, the transmit tasks of the accepted frames all return.
C39_NoDeadlock ==
    /\ [](/\ Cardinality(lock) <= 1
          /\ lock \subseteq {running}
          /\ \A k \in 1..Len(tx) : tx[k].pc # "blocked"
          /\ \A c \in 1..Len(conn) : conn[c].pc # "blocked")
    /\ [][(lock' # lock /\ lock' # {}) => lock = {}]_vars
    /\ (Numbered # {}) ~> (Numbered = {} /\ lock = {})

\* Two accepted frames have been relayed to a station, each task having
\* held the lock four times, and every task has returned.
C39_Witness ==
    /\ frame_counter = 2
    /\ tx = <<>>
    /\ lock = {}
    /\ \E o \in 1..Len(st) : st[o].rx_count = 2 /\ wire[o] = <<1, 2>>

\* ------------------------------------------------------------------- C35
\* The bytes written to the connection of Station object o so far, in the
\* order of the writes.
RECURSIVE StreamFrom(_, _)
StreamFrom(o, i) ==
    IF i > Len(wire[o]) THEN <<>>
    ELSE rolls[wire[o][i]].out \o StreamFrom(o, i + 1)

Stream(o) == StreamFrom(o, 1)

\* The positions of a byte string that hold a frame delimiter.
Delimiters(s) == {i \in 1..Len(s) : s[i] = FEND}

\* C35: what a task writes is the frame it built at line 365, a delimiter,
\* the command byte, the escaped data and a delimiter, with no delimiter in
\* between; the bytes written to a station are such frames one after the
\* other, and a framer that reads them gets one frame for each frame
\* written, in the order of the writes, with nothing left over.
C35_WholeFrames ==
    /\ \A k \in 1..Len(tx) :
          tx[k].pc \in {"drain", "rx"}
          => LET out == tx[k].kiss_out
             IN /\ out = rolls[tx[k].frame_id].out
                /\ Len(out) >= 3
                /\ Delimiters(out) = {1, Len(out)}
                /\ out[2] = tx[k].kiss_cmd
                /\ SubSeq(out, 3, Len(out) - 1) = kiss_escape(tx[k].ax25_data)
    /\ \A o \in 1..Len(wire) :
          LET got == ParseChunk(Stream(o), <<>>, FALSE)
          IN /\ Len(got.frames) = Len(wire[o])
             /\ got.buffer = <<>>
             /\ Cardinality(Delimiters(Stream(o))) = 2 * Len(wire[o])
             /\ \A i \in 1..Len(wire[o]) :
                   LET out == rolls[wire[o][i]].out
                   IN <<FEND>> \o got.frames[i] \o <<FEND>> = out

\* Two tasks wait in the drain of the same station at once, one of them
\* with a frame whose data needed escaping; both frames have been written.
C35_Witness ==
    \E k, j \in 1..Len(tx) :
        /\ k # j
        /\ tx[k].pc = "drain" /\ tx[j].pc = "drain"
        /\ Receiver(k) = Receiver(j)
        /\ wire[Receiver(k)] = <<tx[k].frame_id, tx[j].frame_id>>
        /\ \E i \in 1..Len(tx[k].kiss_out) : tx[k].kiss_out[i] = FESC

\* ------------------------------------------------------------------- C32
\* The supervisory subtype that bits 2-3 of a control byte select.
Subtype(c) ==
    LET s_type == (c \div 4) % 4
    IN IF s_type = 0 THEN "RR"
       ELSE IF s_type = 1 THEN "RNR"
       ELSE IF s_type = 2 THEN "REJ"
       ELSE "SREJ"

\* The control byte with its poll/final bit (bit 4) flipped.
Flipped(c) == Xor(c, 16)

\* C32: a control byte with bits 0-1 = 01 is decoded, by the monitor and by
\* the test script, to the supervisory subtype its bits 2-3 select, never
\* to Unknown, and the monitor counts it as a supervisory frame; and the
\* type of an unnumbered control byte is the type of the same byte with
\* bit 4 flipped.
C32_SupervisorySubtypes ==
    phase = "classified" =>
        LET c == arg.control
        IN /\ ClassOf(c) = "Supervisory"
              => /\ res.km.frame_type = Subtype(c)
                 /\ res.vt.frame_type = Subtype(c)
                 /\ res.counted = "s_frames"
           /\ ClassOf(c) = "Unnumbered"
              => /\ km_decode_frame_type(Flipped(c)).frame_type = res.km.frame_type
                 /\ vt_decode_frame_type(Flipped(c)).frame_type = res.vt.frame_type

\* ------------------------------------------------------------------- C31
\* The callsign and the SSID a station name stands for: the characters
\* before the hyphen and the decimal number after it, 0 without one.
Named(station) ==
    LET dash == {i \in 1..Len(station) : station[i] = 45}
        cut == IF dash = {} THEN Len(station) + 1 ELSE CHOOSE i \in dash : \A j \in dash : i <= j
        digits == SubSeq(station, cut + 1, Len(station))
    IN [callsign |-> SubSeq(station, 1, cut - 1),
        ssid |-> IF dash = {} THEN 0
                 ELSE IF Len(digits) = 1 THEN digits[1] - 48
                 ELSE 10 * (digits[1] - 48) + (digits[2] - 48)]

\* A valid station name: a callsign of at most six upper-case letters and
\* digits, and an SSID of 0 to 15.
ValidName(station) ==
    /\ Len(Named(station).callsign) <= 6
    /\ \A i \in 1..Len(Named(station).callsign) :
          Named(station).callsign[i] \in (65..90) \cup (48..57)
    /\ Named(station).ssid \in 0..15

ValidUI ==
    /\ arg.fn = "ui"
    /\ ValidName(arg.source) /\ ValidName(arg.dest)
    /\ \A i \in 1..Len(arg.via) : ValidName(arg.via[i])

\* The address fields of a built frame: destination, source, repeaters.
Chain == 2 + Len(arg.via)

\* C31: in the frame build_ui_frame returns for valid station names, the
\* last flag is set in the final address field and in no other, and
\* decode_ax25_frame gives back the destination, the source, the repeaters
\* in their order and the payload.
C31_BuildDecodeRoundTrip ==
    /\ (phase \in {"ui", "ui_decoded"} /\ ValidUI)
       => /\ Len(res.frame) = 7 * Chain + 2 + Len(arg.payload)
          /\ \A i \in 1..Chain : (res.frame[7 * i] % 2 = 1) <=> (i = Chain)
    /\ (phase = "ui_decoded" /\ ValidUI)
       => /\ res.decoded.dest = Named(arg.dest)
          /\ res.decoded.source = Named(arg.source)
          /\ Len(res.decoded.via) = Len(arg.via)
          /\ \A i \in 1..Len(arg.via) : res.decoded.via[i] = Named(arg.via[i])
          /\ res.decoded.payload = arg.payload
          /\ res.decoded.frame_type \in {"UI", "AXDP"}

\* A frame built with two repeaters and a payload has been decoded.
C31_Witness ==
    /\ phase = "ui_decoded"
    /\ ValidUI
    /\ Len(arg.via) = 2
    /\ arg.via[1] # arg.via[2]
    /\ arg.payload # <<>>
    /\ Len(res.decoded.via) = 2

====
